---- MODULE Spec2Model ----
(***************************************************************************)
(* Model of tools/coverage_tracker.py: the source scanner                  *)
(* (scan_rust_source), the matching engine (match_features and the         *)
(* per-category matchers) and the coverage figures of the reports.         *)
(*                                                                         *)
(* Text is modelled as TLA+ strings, on which Len, SubSeq and \o act       *)
(* character by character, so "x in text" is a real substring search and   *)
(* the Python string functions are written out as what they compute.       *)
(***************************************************************************)
EXTENDS Integers, Sequences, FiniteSets, TLC

(***************************************************************************)
(* Python str primitives                                                   *)
(***************************************************************************)
UpperChars == "ABCDEFGHIJKLMNOPQRSTUVWXYZ"
LowerChars == "abcdefghijklmnopqrstuvwxyz"
DigitChars == "0123456789"

Ch(s, i) == SubSeq(s, i, i)

\* s[i:] of Python, with i counted from 1
From(s, i) == SubSeq(s, i, Len(s))

\* "sub in s"
Contains(s, sub) ==
    \E i \in 0..(Len(s) - Len(sub)) : SubSeq(s, i + 1, i + Len(sub)) = sub

\* s.startswith(lit, i-1)
StartsAt(s, i, lit) ==
    /\ i + Len(lit) - 1 <= Len(s)
    /\ SubSeq(s, i, i + Len(lit) - 1) = lit

\* s.find(sub, i-1) counted from 1; 0 when absent
FindFrom(s, sub, i) ==
    IF \E k \in i..(Len(s) - Len(sub) + 1) : StartsAt(s, k, sub)
    THEN CHOOSE k \in i..(Len(s) - Len(sub) + 1) :
            /\ StartsAt(s, k, sub)
            /\ \A j \in i..(k - 1) : ~StartsAt(s, j, sub)
    ELSE 0

IndexIn(alphabet, c) == FindFrom(alphabet, c, 1)

IsUpper(c) == Len(c) = 1 /\ Contains(UpperChars, c)
IsLower(c) == Len(c) = 1 /\ Contains(LowerChars, c)
IsDigit(c) == Len(c) = 1 /\ Contains(DigitChars, c)
IsAlpha(c) == IsUpper(c) \/ IsLower(c)
\* \w of the re module (ASCII letters, digits, underscore)
IsWord(c) == IsAlpha(c) \/ IsDigit(c) \/ c = "_"
\* \s of the re module
IsSpace(c) == c \in {" ", "\n", "\t", "\r"}

\* one character (or the empty string) lower-cased, upper-cased
LowerCh(c) == IF IsUpper(c) THEN Ch(LowerChars, IndexIn(UpperChars, c)) ELSE c
UpperCh(c) == IF IsLower(c) THEN Ch(UpperChars, IndexIn(LowerChars, c)) ELSE c

RECURSIVE StrLower(_)
\* str.lower, character by character (halving keeps the recursion shallow)
StrLower(s) ==
    IF Len(s) <= 1 THEN LowerCh(s)
    ELSE LET h == Len(s) \div 2
         IN  StrLower(SubSeq(s, 1, h)) \o StrLower(From(s, h + 1))

\* str.capitalize: first character upper-cased, the rest lower-cased
Capitalize(s) == IF s = "" THEN "" ELSE UpperCh(Ch(s, 1)) \o StrLower(From(s, 2))

RECURSIVE TitleFrom(_, _, _)
\* str.title: a cased character is upper-cased when the character before it
\* is uncased (or there is none) and lower-cased otherwise
TitleFrom(s, i, j) ==
    IF i > j THEN ""
    ELSE IF i = j
    THEN LET c == Ch(s, i)
         IN  IF ~IsAlpha(c) THEN c
             ELSE IF i > 1 /\ IsAlpha(Ch(s, i - 1)) THEN LowerCh(c)
             ELSE UpperCh(c)
    ELSE LET h == (i + j) \div 2
         IN  TitleFrom(s, i, h) \o TitleFrom(s, h + 1, j)

Title(s) == TitleFrom(s, 1, Len(s))

RECURSIVE Replace(_, _, _)
\* str.replace(old, new) for a non-empty old: leftmost, non-overlapping
Replace(s, old, new) ==
    LET k == FindFrom(s, old, 1)
    IN  IF k = 0 THEN s
        ELSE SubSeq(s, 1, k - 1) \o new \o Replace(From(s, k + Len(old)), old, new)

RECURSIVE CountOf(_, _)
\* str.count(sub) for a non-empty sub
CountOf(s, sub) ==
    LET k == FindFrom(s, sub, 1)
    IN  IF k = 0 THEN 0 ELSE 1 + CountOf(From(s, k + Len(sub)), sub)

RECURSIVE Split(_, _)
\* str.split(sep) with an explicit one-character separator
Split(s, sep) ==
    LET k == FindFrom(s, sep, 1)
    IN  IF k = 0 THEN <<s>>
        ELSE <<SubSeq(s, 1, k - 1)>> \o Split(From(s, k + Len(sep)), sep)

Split1Padded(s, sep) ==
    LET k == FindFrom(s, sep, 1)
    IN  IF k = 0 THEN <<"", s>>
        ELSE <<SubSeq(s, 1, k - 1), From(s, k + Len(sep))>>

\* str.split(sep, 1)
Split1(s, sep) ==
    LET k == FindFrom(s, sep, 1)
    IN  IF k = 0 THEN <<s>>
        ELSE <<SubSeq(s, 1, k - 1), From(s, k + Len(sep))>>

RECURSIVE Join(_, _)
\* sep.join(parts)
Join(sep, parts) ==
    IF parts = <<>> THEN ""
    ELSE IF Len(parts) = 1 THEN parts[1]
    ELSE parts[1] \o sep \o Join(sep, Tail(parts))

RECURSIVE SkipSpace(_, _)
\* position after the longest run of \s starting at i
SkipSpace(s, i) ==
    IF i <= Len(s) /\ IsSpace(Ch(s, i)) THEN SkipSpace(s, i + 1) ELSE i

RECURSIVE WordEnd(_, _)
\* position after the longest run of \w starting at i
WordEnd(s, i) ==
    IF i <= Len(s) /\ IsWord(Ch(s, i)) THEN WordEnd(s, i + 1) ELSE i

SeqToSet(q) == {q[i] : i \in 1..Len(q)}

(***************************************************************************)
(* The regular expressions of scan_rust_source                             *)
(***************************************************************************)
NoMatch == [ok |-> FALSE, name |-> "", end |-> 0]

\* \s+(\w+) at position i: the captured word and the position after it
SpaceWordAt(s, i) ==
    LET j == SkipSpace(s, i)
        k == WordEnd(s, j)
    IN  IF j > i /\ k > j
        THEN [ok |-> TRUE, name |-> SubSeq(s, j, k - 1), end |-> k]
        ELSE NoMatch

\* pub\s+<kw>\s+(\w+) matched at position i (kw is struct, enum or trait)
PubDeclAt(s, i, kw) ==
    IF ~StartsAt(s, i, "pub") THEN NoMatch
    ELSE LET j == SkipSpace(s, i + 3)
         IN  IF j > i + 3 /\ StartsAt(s, j, kw)
             THEN SpaceWordAt(s, j + Len(kw))
             ELSE NoMatch

\* pub\s+(?:async\s+)?fn\s+(\w+) matched at position i
PubFnAt(s, i) ==
    IF ~StartsAt(s, i, "pub") THEN NoMatch
    ELSE LET j == SkipSpace(s, i + 3)
             a == SkipSpace(s, j + 5)
         IN  IF j = i + 3 THEN NoMatch
             ELSE IF StartsAt(s, j, "async") /\ a > j + 5 /\ StartsAt(s, a, "fn")
                  THEN SpaceWordAt(s, a + 2)
             ELSE IF StartsAt(s, j, "fn") THEN SpaceWordAt(s, j + 2)
             ELSE NoMatch

\* impl(?:\s+\w+\s+for)?\s+(\w+) matched at position i: the optional group is
\* tried first and given up when the rest does not match after it
ImplAt(s, i) ==
    IF ~StartsAt(s, i, "impl") THEN NoMatch
    ELSE LET t == SpaceWordAt(s, i + 4)
             f == IF t.ok THEN SkipSpace(s, t.end) ELSE 0
             withFor == IF t.ok /\ f > t.end /\ StartsAt(s, f, "for")
                        THEN SpaceWordAt(s, f + 3)
                        ELSE NoMatch
         IN  IF withFor.ok THEN withFor ELSE t

\* #\[(?:tokio::)?test\] matched at position i
TestAt(s, i) ==
    IF StartsAt(s, i, "#[test]")
    THEN [ok |-> TRUE, name |-> "", end |-> i + 7]
    ELSE IF StartsAt(s, i, "#[tokio::test]")
    THEN [ok |-> TRUE, name |-> "", end |-> i + 14]
    ELSE NoMatch

PatternAt(pat, s, i) ==
    CASE pat = "fn"   -> PubFnAt(s, i)
      [] pat = "impl" -> ImplAt(s, i)
      [] pat = "test" -> TestAt(s, i)
      [] OTHER        -> PubDeclAt(s, i, pat)

\* the literal every match of the pattern starts with
PatternHead(pat) ==
    CASE pat = "impl" -> "impl"
      [] pat = "test" -> "#["
      [] OTHER        -> "pub"

RECURSIVE FindAllFrom(_, _, _)
\* re.finditer / re.findall: leftmost matches, each search resuming where the
\* previous match ended; the result is the list of captured names.  Only the
\* positions where the pattern's leading literal occurs can start a match.
FindAllFrom(pat, s, i) ==
    LET k == FindFrom(s, PatternHead(pat), i)
        m == PatternAt(pat, s, k)
    IN  IF k = 0 THEN <<>>
        ELSE IF m.ok THEN <<m.name>> \o FindAllFrom(pat, s, m.end)
        ELSE FindAllFrom(pat, s, k + 1)

FindAll(pat, s) == FindAllFrom(pat, s, 1)

(***************************************************************************)
(* Data models                                                             *)
(***************************************************************************)
\* Feature(category, subcategory, name) with the dataclass defaults
Feature(category, subcategory, name) ==
    [category |-> category, subcategory |-> subcategory, name |-> name,
     status |-> "missing", rust_file |-> "", rust_symbol |-> "", notes |-> ""]

\* CrateInfo(name=n) with the dataclass defaults
CrateInfo(n) ==
    [name |-> n, files |-> <<>>, structs |-> <<>>, functions |-> <<>>,
     enums |-> <<>>, traits |-> <<>>, impls |-> <<>>,
     test_count |-> 0, line_count |-> 0]

(***************************************************************************)
(* The source tree: a file is its path relative to the scan root (a        *)
(* sequence of segments), its text, and whether read_text succeeds on it.  *)
(***************************************************************************)
SrcFile(rel, text, readable) == [rel |-> rel, text |-> text, readable |-> readable]

\* str(rel) of a relative path
PathStr(rel) == Join("/", rel)

\* the pattern "*.rs" of rglob applied to a file name
IsRsName(n) == Len(n) >= 3 /\ From(n, Len(n) - 2) = ".rs"

\* root.rglob("*.rs"): the files of the tree, at any depth, named *.rs
Rglob(t) == {f \in t : IsRsName(f.rel[Len(f.rel)])}

ScanOneSharedFiles(cr, rt, f) ==
    IF "target" \in SeqToSet(rt \o f.rel) THEN cr
    ELSE
      LET crate_name == f.rel[1]
          content == IF f.readable THEN f.text ELSE ""
          lines == IF f.readable THEN CountOf(content, "\n") + 1 ELSE 0
      IN  [n \in (DOMAIN cr) \cup {crate_name} |->
              LET info == IF n \in DOMAIN cr THEN cr[n] ELSE CrateInfo(n)
                  listed == [info EXCEPT !.files = Append(@, PathStr(f.rel))]
              IN  IF n = crate_name
                  THEN [listed EXCEPT
                          !.line_count = @ + lines,
                          !.test_count = @ + Len(FindAll("test", content)),
                          !.structs = @ \o FindAll("struct", content),
                          !.enums = @ \o FindAll("enum", content),
                          !.traits = @ \o FindAll("trait", content),
                          !.functions = @ \o FindAll("fn", content),
                          !.impls = @ \o FindAll("impl", content)]
                  ELSE listed]

ScanOneOverwriting(cr, rt, f) ==
    IF "target" \in SeqToSet(rt \o f.rel) \/ ~f.readable THEN cr
    ELSE [n \in (DOMAIN cr) \cup {f.rel[1]} |->
             IF n = f.rel[1]
             THEN [CrateInfo(n) EXCEPT
                      !.files = <<PathStr(f.rel)>>,
                      !.line_count = CountOf(f.text, "\n") + 1,
                      !.test_count = Len(FindAll("test", f.text)),
                      !.structs = FindAll("struct", f.text)]
             ELSE cr[n]]

ScanOneReadingAnyway(cr, rt, f) ==
    IF "target" \in SeqToSet(rt \o f.rel) THEN cr
    ELSE
      LET crate_name == f.rel[1]
          info == IF crate_name \in DOMAIN cr THEN cr[crate_name]
                  ELSE CrateInfo(crate_name)
          content == f.text
      IN  [n \in (DOMAIN cr) \cup {crate_name} |->
              IF n = crate_name
              THEN [info EXCEPT
                      !.files = Append(@, PathStr(f.rel)),
                      !.line_count = @ + CountOf(content, "\n") + 1,
                      !.test_count = @ + Len(FindAll("test", content)),
                      !.structs = @ \o FindAll("struct", content),
                      !.enums = @ \o FindAll("enum", content),
                      !.traits = @ \o FindAll("trait", content),
                      !.functions = @ \o FindAll("fn", content),
                      !.impls = @ \o FindAll("impl", content)]
              ELSE cr[n]]

\* the body of the scan loop for one file rs_file = root / f.rel
ScanOne(cr, rt, f) ==
    IF "target" \in SeqToSet(rt \o f.rel) THEN cr
    ELSE
      LET crate_name == f.rel[1]
          info == IF crate_name \in DOMAIN cr THEN cr[crate_name]
                  ELSE CrateInfo(crate_name)
          listed == [info EXCEPT !.files = Append(@, PathStr(f.rel))]
          content == f.text
          scanned ==
              [listed EXCEPT
                 !.line_count = @ + CountOf(content, "\n") + 1,
                 !.test_count = @ + Len(FindAll("test", content)),
                 !.structs = @ \o FindAll("struct", content),
                 !.enums = @ \o FindAll("enum", content),
                 !.traits = @ \o FindAll("trait", content),
                 !.functions = @ \o FindAll("fn", content),
                 !.impls = @ \o FindAll("impl", content)]
          result == IF f.readable THEN scanned ELSE listed
      IN  [n \in (DOMAIN cr) \cup {crate_name} |->
              IF n = crate_name THEN result ELSE cr[n]]

(***************************************************************************)
(* Matching engine                                                         *)
(***************************************************************************)
\* all_content.get(crate, "")
ContentOf(all_content, crate) ==
    IF crate \in DOMAIN all_content THEN all_content[crate] ELSE ""

Implemented(feat, file, symbol) ==
    [feat EXCEPT !.status = "implemented", !.rust_file = file, !.rust_symbol = symbol]

RECURSIVE ParamsToBraces(_)
\* re.sub(r":(\w+)", lambda m: "{" + _param_to_rust(m.group(1)) + "}", route),
\* _param_to_rust being the identity on the parameter name
ParamsToBraces(s) ==
    LET k == FindFrom(s, ":", 1)
        e == WordEnd(s, k + 1)
    IN  IF k = 0 THEN s
        ELSE IF e > k + 1
        THEN SubSeq(s, 1, k - 1) \o "{" \o SubSeq(s, k + 1, e - 1) \o "}"
                 \o ParamsToBraces(From(s, e))
        ELSE SubSeq(s, 1, k) \o ParamsToBraces(From(s, k + 1))

IsSignificant(seg) == seg # "" /\ ~StartsAt(seg, 1, ":")

\* [s for s in route.split("/") if s and not s.startswith(":")]
Significant(route) == SelectSeq(Split(route, "/"), IsSignificant)

\* the route_keywords table, in insertion order
RouteKeywords ==
    << <<"ping", "ping">>, <<"server/info", "server_info">>,
       <<"restart/soft", "restart_soft">>, <<"restart/hard", "restart_hard">>,
       <<"update/check", "check_update">>, <<"update/install", "install_update">>,
       <<"statistics/totals", "totals">>, <<"statistics/media", "media_totals">>,
       <<"server/logs", "logs">>, <<"chat/count", "chat_count">>,
       <<"chat/query", "query_chats">>, <<"chat/new", "create_chat">>,
       <<"message/count", "message_count">>, <<"message/query", "query_messages">>,
       <<"message/text", "send_text">>, <<"message/multipart", "send_multipart">>,
       <<"message/react", "send_reaction">>,
       <<"message/schedule", "scheduled_message">>,
       <<"attachment/count", "attachment_count">>,
       <<"attachment/upload", "send_attachment">>,
       <<"handle/count", "handle_count">>, <<"handle/query", "query_handles">>,
       <<"handle/availability/imessage", "check_imessage">>,
       <<"handle/availability/facetime", "check_facetime">>,
       <<"contact", "contacts">>, <<"contact/query", "query_contacts">>,
       <<"contact/upload", "upload_contacts">>, <<"fcm/device", "register_fcm">>,
       <<"fcm/client", "get_fcm">>, <<"mac/lock", "lock_mac">>,
       <<"mac/imessage/restart", "restart_imessage">>,
       <<"backup/theme", "theme_backup">>, <<"backup/settings", "settings_backup">>,
       <<"facetime/answer", "answer_facetime">>,
       <<"facetime/leave", "leave_facetime">>,
       <<"icloud/findmy/devices", "findmy_devices">>,
       <<"icloud/findmy/friends", "findmy_friends">>,
       <<"icloud/account", "icloud_account">>,
       <<"icloud/contact", "icloud_contact">>,
       <<"icloud/account/alias", "icloud_alias">> >>

BranchUnchecked(test, body, file) == [test |-> test, body |-> TRUE, file |-> file]

\* one branch of the if/elif chain "Check specific patterns": the chain stops
\* at the first branch whose test holds; the branch assigns only when its
\* body condition holds too (TRUE for the branches without a nested if)
Branch(test, body, file) == [test |-> test, body |-> body, file |-> file]

SpecificPatterns(route, method, subcategory, api_content) ==
    LET flat(frag, fn, file) ==
            Branch(Contains(route, frag) /\ Contains(api_content, fn), TRUE, file)
        byMethod(m, fn) ==
            Branch(/\ Contains(route, ":guid")
                   /\ method = m
                   /\ Contains(api_content, fn)
                   /\ subcategory = "Chat",
                   TRUE, "bb-api/src/endpoints/chats.rs")
        getOf(sub, fn, file) ==
            Branch(Contains(route, ":guid") /\ method = "GET" /\ subcategory = sub,
                   Contains(api_content, fn), file)
    IN << flat("/read", "mark_chat_read", "bb-api/src/endpoints/chats.rs"),
          flat("/unread", "mark_chat_unread", "bb-api/src/endpoints/chats.rs"),
          flat("/leave", "leave_chat", "bb-api/src/endpoints/chats.rs"),
          flat("/participant/add", "add_participant", "bb-api/src/endpoints/chats.rs"),
          flat("/participant/remove", "remove_participant",
               "bb-api/src/endpoints/chats.rs"),
          flat("/icon", "chat_icon", "bb-api/src/endpoints/chats.rs"),
          flat("embedded-media", "embedded_media", "bb-api/src/endpoints/messages.rs"),
          flat("/unsend", "unsend_message", "bb-api/src/endpoints/messages.rs"),
          flat("/edit", "edit_message", "bb-api/src/endpoints/messages.rs"),
          flat("/notify", "notify_message", "bb-api/src/endpoints/messages.rs"),
          flat("/live", "live_photo", "bb-api/src/endpoints/attachments.rs"),
          flat("/blurhash", "blurhash", "bb-api/src/endpoints/attachments.rs"),
          flat("/download", "download_attachment",
               "bb-api/src/endpoints/attachments.rs"),
          flat("/focus", "handle_focus", "bb-api/src/endpoints/handles.rs"),
          flat("findmy/devices/refresh", "refresh_findmy_devices",
               "bb-api/src/endpoints/icloud.rs"),
          flat("findmy/friends/refresh", "refresh_findmy_friends",
               "bb-api/src/endpoints/icloud.rs"),
          byMethod("GET", "get_chat"),
          byMethod("PUT", "update_chat"),
          byMethod("DELETE", "delete_chat"),
          Branch(/\ Contains(route, "/message")
                 /\ Contains(route, ":guid")
                 /\ method = "GET"
                 /\ subcategory = "Chat",
                 Contains(api_content, "get_chat_messages"),
                 "bb-api/src/endpoints/chats.rs"),
          Branch(/\ Contains(route, ":messageGuid")
                 /\ method = "DELETE"
                 /\ subcategory = "Chat",
                 Contains(api_content, "delete_chat_message"),
                 "bb-api/src/endpoints/chats.rs"),
          getOf("Message", "get_message", "bb-api/src/endpoints/messages.rs"),
          getOf("Attachment", "get_attachment", "bb-api/src/endpoints/attachments.rs"),
          getOf("Handle", "get_handle", "bb-api/src/endpoints/handles.rs") >>

LastTrue(q) ==
    IF \E i \in 1..Len(q) : q[i]
    THEN CHOOSE i \in 1..Len(q) : q[i] /\ \A j \in (i + 1)..Len(q) : ~q[j]
    ELSE 0

\* the index of the first element of a sequence of booleans that is TRUE, or 0
FirstTrue(q) ==
    IF \E i \in 1..Len(q) : q[i]
    THEN CHOOSE i \in 1..Len(q) : q[i] /\ \A j \in 1..(i - 1) : ~q[j]
    ELSE 0

RouteFoundQuotedOnly(api_content, route) ==
    Contains(api_content, "\"" \o route \o "\"")

\* route_rust in api_content or f'"{route}"' in api_content
RouteFound(api_content, route) ==
    \/ Contains(api_content, ParamsToBraces(route))
    \/ Contains(api_content, "\"" \o route \o "\"")

_match_api_endpoint(feat, all_content) ==
    LET ep == feat.name
        api_content == ContentOf(all_content, "bb-api")
        parts == Split1(ep, " ")
    IN  IF Len(parts) < 2 THEN feat
        ELSE
          LET method == parts[1]
              path == parts[2]
              route == Replace(path, "/api/v1", "")
              significant == Significant(route)
              n == Len(significant)
              endpoint_file ==
                  "bb-api/src/endpoints/" \o StrLower(feat.subcategory) \o ".rs"
              specific == SpecificPatterns(route, method, feat.subcategory, api_content)
              k == FirstTrue([i \in 1..Len(specific) |-> specific[i].test])
          IN  IF RouteFound(api_content, route)
              THEN Implemented(feat, endpoint_file, feat.rust_symbol)
              ELSE IF /\ n >= 2
                      /\ \A i \in (n - 1)..n : Contains(api_content, significant[i])
              THEN Implemented(feat, endpoint_file, feat.rust_symbol)
              ELSE IF \E i \in 1..Len(RouteKeywords) :
                         /\ Contains(route, RouteKeywords[i][1])
                         /\ Contains(api_content, RouteKeywords[i][2])
              THEN Implemented(feat, endpoint_file, feat.rust_symbol)
              ELSE IF k # 0 /\ specific[k].body
              THEN Implemented(feat, specific[k].file, feat.rust_symbol)
              ELSE feat

\* the text after the first "." of the entry name, or the whole name
AfterDot(name) == IF Contains(name, ".") THEN Split1(name, ".")[2] ELSE name

\* file_map.get(key, key.lower()) for a table of <<key, value>> pairs
FileMapGet(file_map, key) ==
    IF \E i \in 1..Len(file_map) : file_map[i][1] = key
    THEN file_map[CHOOSE i \in 1..Len(file_map) : file_map[i][1] = key][2]
    ELSE StrLower(key)

ModelFileMap ==
    << <<"ThemeStruct", "theme">>, <<"ScheduledMessage", "scheduled_message">>,
       <<"AttributedBody", "attributed_body">>, <<"PayloadData", "payload_data">>,
       <<"FcmData", "fcm_data">> >>

ModelNameFromEntryName(feat) == Split1(feat.name, ".")[1]

\* model_name = feat.subcategory
ModelName(feat) == feat.subcategory

_match_db_model(feat, all_structs, all_content) ==
    LET model_name == ModelName(feat)
        field_or_method == AfterDot(feat.name)
        models_content == ContentOf(all_content, "bb-models")
    IN  IF model_name \in all_structs \/ Contains(models_content, model_name)
        THEN IF Contains(models_content, field_or_method)
             THEN Implemented(feat,
                      "bb-models/src/models/"
                          \o FileMapGet(ModelFileMap, model_name) \o ".rs",
                      model_name \o "::" \o field_or_method)
             ELSE [feat EXCEPT !.status = "stubbed",
                               !.notes = "Struct exists but " \o field_or_method
                                             \o " not found"]
        ELSE [feat EXCEPT !.status = "missing"]

InfraChecksPoolingBoth(models_content) ==
    LET has(t) == Contains(models_content, t)
    IN << <<"connection pooling", has("r2d2") /\ has("Pool")>>,
          <<"wal mode", has("WAL") \/ has("wal_mode")>>,
          <<"integrity check", has("integrity_check")>>,
          <<"schema creation", has("create_tables")>>,
          <<"versioned migrations", has("run_migrations")>>,
          <<"transaction support", has("transaction")>>,
          <<"database reset", has("reset") /\ has("drop_tables")>>,
          <<"database stats", has("DatabaseStats") \/ has("stats")>>,
          <<"settings key-value store", has("settings") /\ has("key")>>,
          <<"chat-handle join table", has("chat_handle_join")>> >>

\* the checks table of _match_db_infra, in insertion order, evaluated on the
\* text of the models crate
InfraChecks(models_content) ==
    LET has(t) == Contains(models_content, t)
    IN << <<"connection pooling", has("r2d2") \/ has("Pool")>>,
          <<"wal mode", has("WAL") \/ has("wal_mode")>>,
          <<"integrity check", has("integrity_check")>>,
          <<"schema creation", has("create_tables")>>,
          <<"versioned migrations", has("run_migrations")>>,
          <<"transaction support", has("transaction")>>,
          <<"database reset", has("reset") /\ has("drop_tables")>>,
          <<"database stats", has("DatabaseStats") \/ has("stats")>>,
          <<"settings key-value store", has("settings") /\ has("key")>>,
          <<"chat-handle join table", has("chat_handle_join")>> >>

InfraAnyFragmentHolds(feat, all_content) ==
    LET models_content == ContentOf(all_content, "bb-models")
        name == StrLower(feat.name)
        checks == InfraChecks(models_content)
    IN  IF \E i \in 1..Len(checks) : Contains(name, checks[i][1])
        THEN [feat EXCEPT !.status =
                              IF \E i \in 1..Len(checks) :
                                     Contains(name, checks[i][1]) /\ checks[i][2]
                              THEN "implemented" ELSE "missing",
                          !.rust_file = "bb-models/src/db.rs"]
        ELSE IF Contains(StrLower(models_content), name)
        THEN [feat EXCEPT !.status = "implemented"]
        ELSE [feat EXCEPT !.status = "missing"]

_match_db_infra(feat, all_content) ==
    LET models_content == ContentOf(all_content, "bb-models")
        name == StrLower(feat.name)
        checks == InfraChecks(models_content)
        k == FirstTrue([i \in 1..Len(checks) |-> Contains(name, checks[i][1])])
    IN  IF k # 0
        THEN [feat EXCEPT !.status = IF checks[k][2] THEN "implemented" ELSE "missing",
                          !.rust_file = "bb-models/src/db.rs"]
        ELSE IF Contains(StrLower(models_content), name)
        THEN [feat EXCEPT !.status = "implemented"]
        ELSE [feat EXCEPT !.status = "missing"]

ServiceFileMap ==
    << <<"ChatService", "chat">>, <<"MessageService", "message">>,
       <<"ContactService", "contact">>, <<"AttachmentService", "attachment">>,
       <<"SyncService", "sync">>, <<"SettingsService", "settings">>,
       <<"NotificationService", "notification">>, <<"QueueService", "queue">>,
       <<"ServiceRegistry", "registry">> >>

ServicePartial(feat, all_content) ==
    LET svc_content == ContentOf(all_content, "bb-services")
    IN  IF feat.subcategory # "Flutter-only" /\ Contains(svc_content, feat.subcategory)
        THEN [feat EXCEPT !.status = "partial"]
        ELSE [feat EXCEPT !.status = "missing"]

ServiceByNamePrefix(feat, all_content) ==
    LET svc_content == ContentOf(all_content, "bb-services")
        svc_name == Split1(feat.name, ".")[1]
        method_name == AfterDot(feat.name)
    IN  IF feat.subcategory = "Flutter-only"
        THEN [feat EXCEPT !.status = "missing",
                          !.notes = "Flutter-specific service, not ported"]
        ELSE IF Contains(svc_content, svc_name) /\ Contains(svc_content, method_name)
        THEN Implemented(feat,
                 "bb-services/src/" \o FileMapGet(ServiceFileMap, svc_name) \o ".rs",
                 svc_name \o "::" \o method_name)
        ELSE IF Contains(svc_content, svc_name)
        THEN [feat EXCEPT !.status = "stubbed",
                          !.notes = "Service exists but " \o method_name
                                        \o " not found"]
        ELSE [feat EXCEPT !.status = "missing"]

_match_service(feat, all_content) ==
    LET svc_content == ContentOf(all_content, "bb-services")
        svc_name == feat.subcategory
        method_name == AfterDot(feat.name)
    IN  IF feat.subcategory = "Flutter-only"
        THEN [feat EXCEPT !.status = "missing",
                          !.notes = "Flutter-specific service, not ported"]
        ELSE IF Contains(svc_content, svc_name) /\ Contains(svc_content, method_name)
        THEN Implemented(feat,
                 "bb-services/src/" \o FileMapGet(ServiceFileMap, svc_name) \o ".rs",
                 svc_name \o "::" \o method_name)
        ELSE IF Contains(svc_content, svc_name)
        THEN [feat EXCEPT !.status = "stubbed",
                          !.notes = "Service exists but " \o method_name
                                        \o " not found"]
        ELSE [feat EXCEPT !.status = "missing"]

CmdVariantsUntitled(cmd) ==
    {Replace(cmd, "-", "_"), Capitalize(Replace(cmd, "-", ""))}

\* the three spellings of the command token searched in the CLI text
CmdVariants(cmd) ==
    {Replace(cmd, "-", "_"), Capitalize(Replace(cmd, "-", "")), Title(cmd)}

_match_cli_command(feat, all_content) ==
    LET cli_content == ContentOf(all_content, "bb-cli")
        parts == Split(feat.name, " ")
    IN  IF Len(parts) >= 3
        THEN LET group == parts[2]
                 cmd == parts[3]
             IN  IF /\ Contains(cli_content, group)
                    /\ \E v \in CmdVariants(cmd) : Contains(cli_content, v)
                 THEN Implemented(feat, "bb-cli/src/commands/" \o group \o ".rs",
                                  feat.rust_symbol)
                 ELSE IF Contains(cli_content, group)
                 THEN [feat EXCEPT !.status = "stubbed",
                                   !.notes = "Module exists, checking for " \o cmd]
                 ELSE [feat EXCEPT !.status = "missing"]
        ELSE IF Len(parts) >= 2 /\ Contains(cli_content, parts[2])
        THEN Implemented(feat, "bb-cli/src/commands/" \o parts[2] \o ".rs",
                         feat.rust_symbol)
        ELSE feat

\* the keyword_map table of _match_core, in insertion order:
\* <<key_name, search_term, crate whose text is searched, evidence file>>
KeywordMap ==
    << <<"AppConfig", "AppConfig", "bb-core", "bb-core/src/config.rs">>,
       <<"ServerConfig", "ServerConfig", "bb-core", "bb-core/src/config.rs">>,
       <<"DatabaseConfig", "DatabaseConfig", "bb-core", "bb-core/src/config.rs">>,
       <<"LoggingConfig", "LoggingConfig", "bb-core", "bb-core/src/config.rs">>,
       <<"SyncConfig", "SyncConfig", "bb-core", "bb-core/src/config.rs">>,
       <<"NotificationConfig", "NotificationConfig", "bb-core",
         "bb-core/src/config.rs">>,
       <<"DisplayConfig", "DisplayConfig", "bb-core", "bb-core/src/config.rs">>,
       <<"ConfigHandle", "ConfigHandle", "bb-core", "bb-core/src/config.rs">>,
       <<"BbError", "BbError", "bb-core", "bb-core/src/error.rs">>,
       <<"MessageError", "MessageError", "bb-core", "bb-core/src/error.rs">>,
       <<"init_logging", "init_logging", "bb-core", "bb-core/src/logging.rs">>,
       <<"init_console_logging", "init_console_logging", "bb-core",
         "bb-core/src/logging.rs">>,
       <<"Platform detection", "Platform", "bb-core", "bb-core/src/platform.rs">>,
       <<"Platform data_dir", "data_dir", "bb-core", "bb-core/src/platform.rs">>,
       <<"Constants", "reactions", "bb-core", "bb-core/src/constants.rs">>,
       <<"AES-256-CBC", "AesCrypto", "bb-socket", "bb-socket/src/crypto.rs">>,
       <<"SocketEventType", "SocketEventType", "bb-socket",
         "bb-socket/src/events.rs">>,
       <<"EventDispatcher", "EventDispatcher", "bb-socket",
         "bb-socket/src/events.rs">>,
       <<"ConnectionState", "ConnectionState", "bb-socket",
         "bb-socket/src/events.rs">>,
       <<"SocketManager", "SocketManager", "bb-socket", "bb-socket/src/manager.rs">>,
       <<"Reconnect with exponential backoff", "reconnect_delay", "bb-socket",
         "bb-socket/src/manager.rs">>,
       <<"Event deduplication", "handled_guids", "bb-socket",
         "bb-socket/src/manager.rs">>,
       <<"Service trait", "trait Service", "bb-services",
         "bb-services/src/service.rs">>,
       <<"ServiceState", "ServiceState", "bb-services",
         "bb-services/src/service.rs">> >>

CoreCombinedText(feat, all_content) ==
    LET name == feat.name
        combined == ContentOf(all_content, "bb-core")
                        \o ContentOf(all_content, "bb-socket")
                        \o ContentOf(all_content, "bb-services")
        k == FirstTrue([i \in 1..Len(KeywordMap) |-> Contains(name, KeywordMap[i][1])])
    IN  IF k # 0
        THEN IF Contains(combined, KeywordMap[k][2])
             THEN Implemented(feat, KeywordMap[k][4], KeywordMap[k][2])
             ELSE [feat EXCEPT !.status = "missing"]
        ELSE [feat EXCEPT !.status = "missing"]

_match_core(feat, all_content) ==
    LET name == feat.name
        k == FirstTrue([i \in 1..Len(KeywordMap) |-> Contains(name, KeywordMap[i][1])])
    IN  IF k # 0
        THEN IF Contains(ContentOf(all_content, KeywordMap[k][3]), KeywordMap[k][2])
             THEN Implemented(feat, KeywordMap[k][4], KeywordMap[k][2])
             ELSE [feat EXCEPT !.status = "missing"]
        ELSE [feat EXCEPT !.status = "missing"]

RECURSIVE CamelBreaks(_, _, _)
\* re.sub(r"(?<=[a-z])([A-Z])", r"_\1", s) on s[i..j]: an underscore goes in
\* front of every upper-case letter whose predecessor is a lower-case letter
CamelBreaks(s, i, j) ==
    IF i > j THEN ""
    ELSE IF i = j
    THEN (IF i > 1 /\ IsUpper(Ch(s, i)) /\ IsLower(Ch(s, i - 1)) THEN "_" ELSE "")
             \o Ch(s, i)
    ELSE LET h == (i + j) \div 2
         IN  CamelBreaks(s, i, h) \o CamelBreaks(s, h + 1, j)

\* the snake_case spelling searched by _match_setting
Snake(name) == StrLower(CamelBreaks(name, 1, Len(name)))

SettingFoundSnakeOnly(core_content, name) == Contains(core_content, Snake(name))

\* snake in core_content or name in core_content
SettingFound(core_content, name) ==
    Contains(core_content, Snake(name)) \/ Contains(core_content, name)

SettingStubbed(feat, all_content) ==
    IF SettingFound(ContentOf(all_content, "bb-core"), feat.name)
    THEN Implemented(feat, "bb-core/src/config.rs", feat.rust_symbol)
    ELSE [feat EXCEPT !.status = "stubbed", !.notes = "Not in TOML config yet"]

_match_setting(feat, all_content) ==
    LET core_content == ContentOf(all_content, "bb-core")
        name == feat.name
    IN  IF SettingFound(core_content, name)
        THEN Implemented(feat, "bb-core/src/config.rs", feat.rust_symbol)
        ELSE [feat EXCEPT !.status = "missing", !.notes = "Not in TOML config yet"]

EventVariants ==
    << <<"new-message", "NewMessage">>, <<"updated-message", "UpdatedMessage">>,
       <<"typing-indicator", "TypingIndicator">>,
       <<"group-name-change", "ChatUpdate">>,
       <<"chat-read-status-changed", "ChatReadStatusChanged">>,
       <<"participant-removed", "ParticipantRemoved">>,
       <<"participant-added", "ParticipantAdded">>,
       <<"participant-left", "ParticipantLeft">>,
       <<"group-icon-changed", "GroupIconChanged">>,
       <<"incoming-facetime", "IncomingFaceTime">>,
       <<"ft-call-status-changed", "FtCallStatusChanged">>,
       <<"imessage-aliases-removed", "IMessageAliasRemoved">>,
       <<"server-update", "ServerUpdate">> >>

\* mapping.get(event_name, event_name)
_event_to_variant(event_name) ==
    IF \E i \in 1..Len(EventVariants) : EventVariants[i][1] = event_name
    THEN EventVariants[CHOOSE i \in 1..Len(EventVariants) :
                           EventVariants[i][1] = event_name][2]
    ELSE event_name

MatchSocketEventUnquoted(feat, all_content) ==
    LET event_name == feat.name
    IN  IF Contains(ContentOf(all_content, "bb-socket"), event_name)
        THEN Implemented(feat, "bb-socket/src/events.rs",
                         "SocketEventType::" \o _event_to_variant(event_name))
        ELSE IF event_name \in {"chat-read-status-changed", "ft-call-status-changed"}
        THEN [feat EXCEPT !.status = "missing", !.notes = "Not in event enum yet"]
        ELSE feat

\* the Socket Events branch of _match_single_feature
MatchSocketEvent(feat, all_content) ==
    LET event_name == feat.name
    IN  IF Contains(ContentOf(all_content, "bb-socket"), "\"" \o event_name \o "\"")
        THEN Implemented(feat, "bb-socket/src/events.rs",
                         "SocketEventType::" \o _event_to_variant(event_name))
        ELSE IF event_name \in {"chat-read-status-changed", "ft-call-status-changed"}
        THEN [feat EXCEPT !.status = "missing", !.notes = "Not in event enum yet"]
        ELSE feat

UiScreenUntouched(feat) == feat

\* the UI Screens branch of _match_single_feature
MatchUiScreen(feat) ==
    [feat EXCEPT !.status = "missing", !.notes = "Tauri UI not yet started"]

_match_single_feature(feat, all_structs, all_content) ==
    CASE feat.category = "API Endpoints" -> _match_api_endpoint(feat, all_content)
      [] feat.category = "Socket Events" -> MatchSocketEvent(feat, all_content)
      [] feat.category = "DB Models" -> _match_db_model(feat, all_structs, all_content)
      [] feat.category = "DB Infrastructure" -> _match_db_infra(feat, all_content)
      [] feat.category = "Services" -> _match_service(feat, all_content)
      [] feat.category = "CLI Commands" -> _match_cli_command(feat, all_content)
      [] feat.category = "Core Infrastructure" -> _match_core(feat, all_content)
      [] feat.category = "Settings" -> _match_setting(feat, all_content)
      [] feat.category = "UI Screens" -> MatchUiScreen(feat)
      [] OTHER -> feat

(***************************************************************************)
(* Coverage figures of the reports                                         *)
(***************************************************************************)
\* Python's float results are kept exact, as fractions num/den; den = 0 marks
\* the ZeroDivisionError raised by a / 0
ZeroDivisionError == [num |-> 0, den |-> 0]

Number(n) == [num |-> n, den |-> 1]

\* a / b
TrueDiv(a, b) == IF b = 0 THEN ZeroDivisionError ELSE [num |-> a, den |-> b]

\* x * k, an exception in x propagating
Times(x, k) == IF x = ZeroDivisionError THEN x ELSE [x EXCEPT !.num = @ * k]

PercentUnguarded(part, whole) == Times(TrueDiv(part, whole), 100)

\* (part / whole * 100) if whole else 0
Percent(part, whole) ==
    IF whole # 0 THEN Times(TrueDiv(part, whole), 100) ELSE Number(0)

\* sum(1 for f in feats if f.status == status)
CountStatus(feats, status) ==
    Cardinality({i \in 1..Len(feats) : feats[i].status = status})

SetDefaultPushFront(groups, key, f) ==
    IF \E i \in 1..Len(groups) : groups[i].key = key
    THEN [i \in 1..Len(groups) |->
             IF groups[i].key = key
             THEN [groups[i] EXCEPT !.items = Append(@, f)]
             ELSE groups[i]]
    ELSE <<[key |-> key, items |-> <<f>>]>> \o groups

\* groups.setdefault(key, []).append(f) on an insertion-ordered dict, kept as
\* a sequence of [key, items] in insertion order
SetDefaultAppend(groups, key, f) ==
    IF \E i \in 1..Len(groups) : groups[i].key = key
    THEN [i \in 1..Len(groups) |->
             IF groups[i].key = key
             THEN [groups[i] EXCEPT !.items = Append(@, f)]
             ELSE groups[i]]
    ELSE Append(groups, [key |-> key, items |-> <<f>>])

RECURSIVE GroupByCategory(_, _)
\* the dict "categories" after the first n features went through the loop
GroupByCategory(feats, n) ==
    IF n = 0 THEN <<>>
    ELSE SetDefaultAppend(GroupByCategory(feats, n - 1), feats[n].category, feats[n])

RECURSIVE GroupBySubcategory(_, _)
\* the dict "subcats" after the first n features of a category went through
\* the loop
GroupBySubcategory(cat_features, n) ==
    IF n = 0 THEN <<>>
    ELSE SetDefaultAppend(GroupBySubcategory(cat_features, n - 1),
                          cat_features[n].subcategory, cat_features[n])

\* the detailed tables of one category: its heading and one table per
\* subcategory
CategoryTables(group) ==
    [name |-> group.key,
     subcats |-> GroupBySubcategory(group.items, Len(group.items))]

\* one row of the per-category table
CategoryRow(group) ==
    LET cat_total == Len(group.items)
        cat_impl == CountStatus(group.items, "implemented")
    IN  [name |-> group.key, total |-> cat_total, implemented |-> cat_impl,
         stubbed |-> CountStatus(group.items, "stubbed"),
         missing |-> CountStatus(group.items, "missing"),
         pct |-> Percent(cat_impl, cat_total)]

\* the figures generate_terminal_report and generate_markdown_report compute
ReportOf(feats) ==
    LET total == Len(feats)
        implemented == CountStatus(feats, "implemented")
        categories == GroupByCategory(feats, Len(feats))
    IN  [total |-> total, implemented |-> implemented,
         stubbed |-> CountStatus(feats, "stubbed"),
         missing |-> CountStatus(feats, "missing"),
         pct |-> Percent(implemented, total),
         rows |-> [i \in 1..Len(categories) |-> CategoryRow(categories[i])],
         tables |-> [i \in 1..Len(categories) |-> CategoryTables(categories[i])]]

\* whether computing the figures raised
Raised(rep) ==
    \/ rep.pct = ZeroDivisionError
    \/ \E i \in 1..Len(rep.rows) : rep.rows[i].pct = ZeroDivisionError

NoReport == [total |-> 0, implemented |-> 0, stubbed |-> 0, missing |-> 0,
             pct |-> Number(0), rows |-> <<>>, tables |-> <<>>]

(***************************************************************************)
(* Inputs: the source trees and the catalogs the runs are explored on      *)
(***************************************************************************)
\* most files in a tree
MaxFiles == 2
\* most entries in a catalog
MaxEntries == 2

\* project_root of main(), as path segments
ProjectRoot == <<"home", "dev", "bluebubbles-app-rust">>

\* the places a checkout can be scanned at
RootPool == {ProjectRoot, <<"home", "target", "bluebubbles-app-rust">>}

Scenarios ==
    {"api", "api-rules", "api-order", "models", "infra", "infra-order",
     "services", "events", "core-order", "settings", "cli", "layout"}

FilePool(sc) ==
    CASE sc = "api" ->
           { SrcFile(<<"bb-api", "src", "server.rs">>,
                     "router.get(\"/ping\")", TRUE),
             SrcFile(<<"bb-api", "src", "chats.rs">>,
                     "format!(\"/chat/{guid}/read\")", TRUE),
             SrcFile(<<"bb-api", "src", "gen.rs">>,
                     "pub fn ping() {}\n#[test]\n\"/ping\"", FALSE),
             SrcFile(<<"target", "debug", "build.rs">>, "\"/ping\"", TRUE) }
      [] sc = "api-rules" ->
           { SrcFile(<<"bb-api", "src", "client.rs">>,
                     "pub fn mark_chat_read() {}\npub async fn query_chats() {}", TRUE),
             SrcFile(<<"bb-api", "src", "handles.rs">>,
                     "pub async fn get_handle() {}", TRUE),
             SrcFile(<<"bb-api", "src", "routes.rs">>, "// chat query", TRUE),
             SrcFile(<<"bb-api", "src", "ping.rs">>, "pub fn ping() {}", TRUE) }
      [] sc = "api-order" ->
           { SrcFile(<<"bb-api", "src", "chat_fn.rs">>, "pub fn get_chat() {}", TRUE),
             SrcFile(<<"bb-api", "src", "download.rs">>,
                     "pub fn download_attachment() {}", TRUE),
             SrcFile(<<"bb-api", "src", "attachment_fn.rs">>,
                     "pub fn get_attachment() {}", TRUE) }
      [] sc = "models" ->
           { SrcFile(<<"bb-models", "src", "chat.rs">>,
                     "pub struct Chat {\n    pub guid: String,\n}\nimpl Chat {}", TRUE),
             SrcFile(<<"bb-models", "src", "models.rs">>, "// Chat rows", TRUE),
             SrcFile(<<"bb-core", "src", "types.rs">>,
                     "pub struct Handle;\npub enum Kind {}", TRUE),
             SrcFile(<<"bb-models", "src", "save.rs">>, "pub fn save() {}", TRUE) }
      [] sc = "infra" ->
           { SrcFile(<<"bb-models", "src", "db.rs">>,
                     "use r2d2;\npub fn create_tables() {}\n#[test]", TRUE),
             SrcFile(<<"bb-models", "src", "pool.rs">>, "type P = Pool<M>;", TRUE),
             SrcFile(<<"bb-models", "src", "models.rs">>, "// Chat rows", TRUE) }
      [] sc = "infra-order" ->
           { SrcFile(<<"bb-models", "src", "db.rs">>, "pub fn create_tables() {}", TRUE),
             SrcFile(<<"bb-models", "src", "notes.rs">>,
                     "// Schema creation with connection pooling notes", TRUE) }
      [] sc = "services" ->
           { SrcFile(<<"bb-services", "src", "chat.rs">>,
                     "pub struct ChatService;\nimpl Service for ChatService {\n    pub fn list_chats() {}\n}",
                     TRUE),
             SrcFile(<<"bb-services", "src", "service.rs">>,
                     "pub trait Service {}\n#[tokio::test]\nasync fn t() {}", TRUE),
             SrcFile(<<"bb-services", "src", "theme.rs">>,
                     "pub struct ThemeService;", TRUE) }
      [] sc = "events" ->
           { SrcFile(<<"bb-socket", "src", "events.rs">>,
                     "\"new-message\" => NewMessage,", TRUE),
             SrcFile(<<"bb-socket", "src", "manager.rs">>,
                     "pub struct SocketManager;\n// ft-call-status-changed", TRUE),
             SrcFile(<<"bb-core", "src", "config.rs">>,
                     "pub struct AppConfig {\n    pub user_name: String,\n}", TRUE) }
      [] sc = "core-order" ->
           { SrcFile(<<"bb-socket", "src", "manager.rs">>,
                     "pub struct SocketManager;\n// reactions", TRUE),
             SrcFile(<<"bb-core", "src", "constants.rs">>, "// Constants", TRUE),
             SrcFile(<<"bb-core", "src", "app.rs">>, "pub struct AppConfig;", TRUE) }
      [] sc = "settings" ->
           { SrcFile(<<"bb-core", "src", "config.rs">>,
                     "pub struct AppConfig {\n    pub user_name: String,\n}", TRUE),
             SrcFile(<<"bb-core", "src", "legacy.rs">>, "let autoDownload = 1;", TRUE),
             SrcFile(<<"bb-cli", "src", "main.rs">>, "// userName", TRUE) }
      [] sc = "cli" ->
           { SrcFile(<<"bb-cli", "src", "main.rs">>,
                     "mod chats;\nenum ChatsCmd { List }", TRUE),
             SrcFile(<<"bb-cli", "src", "commands", "server.rs">>,
                     "mod server;\nfn check_update() {}", TRUE),
             SrcFile(<<"bb-cli", "src", "status.rs">>, "mod chats;\nmod server;", TRUE),
             SrcFile(<<"bb-cli", "src", "help.rs">>, "server Check-Update", TRUE) }
      [] sc = "layout" ->
           { SrcFile(<<"build.rs">>, "fn main() {}", TRUE),
             SrcFile(<<"bb-cli", "README.md">>, "bb chats list", TRUE),
             SrcFile(<<"bb-cli", "target", "debug", "chats.rs">>, "mod chats;", TRUE),
             SrcFile(<<"bb-cli", "src", "commands", "chats.rs">>,
                     "mod chats;\npub fn list() {}", TRUE) }

EntryPool(sc) ==
    CASE sc = "api" ->
           { Feature("API Endpoints", "Server", "GET /api/v1/ping"),
             Feature("API Endpoints", "Chat", "POST /api/v1/chat/:guid/read"),
             Feature("API Endpoints", "Message", "GET /api/v1/chat/:guid"),
             Feature("API Endpoints", "Server", "/api/v1/ping") }
      [] sc = "api-rules" ->
           { Feature("API Endpoints", "Chat", "POST /api/v1/chat/query"),
             Feature("API Endpoints", "Chat", "POST /api/v1/chat/:guid/read"),
             Feature("API Endpoints", "Handle", "GET /api/v1/handle/:guid"),
             Feature("API Endpoints", "Server", "GET /api/v1/ping") }
      [] sc = "api-order" ->
           { Feature("API Endpoints", "Chat", "GET /api/v1/:guid/download"),
             Feature("API Endpoints", "Message", "GET /api/v1/message/:guid"),
             Feature("API Endpoints", "Server", "GET /api/v1") }
      [] sc = "models" ->
           { Feature("DB Models", "Chat", "Chat.guid"),
             Feature("DB Models", "Handle", "Handle.address"),
             Feature("DB Models", "Message", "Chat.guid"),
             Feature("DB Infrastructure", "Core", "Schema creation") }
      [] sc = "infra" ->
           { Feature("DB Infrastructure", "Core", "Connection pooling (r2d2)"),
             Feature("DB Infrastructure", "Core", "Schema creation"),
             Feature("DB Infrastructure", "Core", "Chat rows"),
             Feature("DB Models", "Chat", "save") }
      [] sc = "infra-order" ->
           { Feature("DB Infrastructure", "Core",
                     "Schema creation with connection pooling"),
             Feature("DB Infrastructure", "Core", "Pooling notes") }
      [] sc = "services" ->
           { Feature("Services", "ChatService", "ChatService.list_chats"),
             Feature("Services", "ChatService", "ChatService.find_chat"),
             Feature("Services", "Flutter-only", "ThemeService"),
             Feature("Services", "MessageService", "ChatService.list_chats") }
      [] sc = "events" ->
           { Feature("Socket Events", "Events", "new-message"),
             Feature("Socket Events", "Events", "ft-call-status-changed"),
             Feature("Core Infrastructure", "Core", "AppConfig"),
             Feature("Core Infrastructure", "Core", "SocketManager") }
      [] sc = "core-order" ->
           { Feature("Core Infrastructure", "Config", "AppConfig for SocketManager"),
             Feature("Core Infrastructure", "Constants", "Constants") }
      [] sc = "settings" ->
           { Feature("Settings", "General", "userName"),
             Feature("Settings", "General", "autoDownload"),
             Feature("UI Screens", "Settings", "Settings page"),
             Feature("Core Infrastructure", "Core", "Logging") }
      [] sc = "cli" ->
           { Feature("CLI Commands", "chats", "bb chats list"),
             Feature("CLI Commands", "server", "bb server check-update"),
             Feature("CLI Commands", "status", "bb status"),
             Feature("CLI Commands", "status", "status") }
      [] sc = "layout" ->
           { Feature("CLI Commands", "chats", "bb chats list"),
             Feature("UI Screens", "Conversation List", "Chat list view"),
             Feature("Widgets", "Chat", "Chat.guid") }

\* the trees of at most MaxFiles files
Trees(sc) == {t \in SUBSET FilePool(sc) : Cardinality(t) <= MaxFiles}

\* the catalogs of at most MaxEntries entries, as build_feature_matrix builds
\* them: every entry with the default status and empty evidence
Catalogs(sc) == UNION {[1..n -> EntryPool(sc)] : n \in 0..MaxEntries}

(***************************************************************************)
(* State                                                                   *)
(***************************************************************************)
VARIABLES
    root,           \* the scanned root directory
    tree,           \* the files under it
    tree2,          \* the files under it when the program is run again
    todo,           \* files rglob has still to yield
    crates,         \* dict crate name -> CrateInfo built by scan_rust_source
    pc,             \* where the program is
    all_functions,  \* lookup indices of match_features
    all_structs,
    all_enums,
    all_content,    \* dict crate name -> joined file content
    features,       \* the catalog, a list of Feature
    idx,            \* position of the loop "for feat in features"
    report,         \* the figures of the generated reports
    todo2,          \* a second call of scan_rust_source on the same root:
    crates2,        \*   the files still to yield and the dict it builds
    features2,      \* a second call of match_features on the same crates:
    idx2            \*   its catalog and its loop position

inputs == <<root, tree, tree2>>
scan1 == <<todo, crates>>
scan2 == <<todo2, crates2>>
indices == <<all_functions, all_structs, all_enums, all_content>>
match1 == <<features, idx>>
match2 == <<features2, idx2>>

vars == <<inputs, scan1, scan2, indices, match1, match2, pc, report>>

EmptyDict == [n \in {} |-> 0]

InitAll(rt, t, t2, catalog, catalog2) ==
    /\ root = rt
    /\ tree = t
    /\ tree2 = t2
    /\ todo = Rglob(t)
    /\ crates = EmptyDict
    /\ pc = "scan"
    /\ all_functions = {}
    /\ all_structs = {}
    /\ all_enums = {}
    /\ all_content = EmptyDict
    /\ features = catalog
    /\ idx = 1
    /\ report = NoReport
    /\ todo2 = Rglob(t2)
    /\ crates2 = EmptyDict
    /\ features2 = catalog2
    /\ idx2 = 1

\* the tree is the same whenever it is looked at
InitWith(rt, t, catalog, catalog2) == InitAll(rt, t, t, catalog, catalog2)

\* main(): the catalog is built, the project root is about to be scanned
Init ==
    \E sc \in Scenarios :
        \E t \in Trees(sc), catalog \in Catalogs(sc) :
            InitWith(ProjectRoot, t, catalog, <<>>)

(***************************************************************************)
(* scan_rust_source                                                        *)
(***************************************************************************)
\* one iteration of "for rs_file in root.rglob('*.rs')", the order in which
\* rglob yields the files being the file system's
ScanFile ==
    /\ pc = "scan"
    /\ \E f \in todo :
          /\ crates' = ScanOne(crates, root, f)
          /\ todo' = todo \ {f}
    /\ UNCHANGED <<inputs, scan2, indices, match1, match2, pc, report>>

\* "return crates", main() going on to match_features
ScanReturn ==
    /\ pc = "scan"
    /\ todo = {}
    /\ pc' = "index"
    /\ UNCHANGED <<inputs, scan1, scan2, indices, match1, match2, report>>

(***************************************************************************)
(* match_features                                                          *)
(***************************************************************************)
\* the union of one symbol list over all crates
AllOf(cr, field) == UNION {SeqToSet(cr[n][field]) : n \in DOMAIN cr}

ReadableTextsOrPath(t, files) ==
    LET fileAt(fpath) == CHOOSE f \in t : PathStr(f.rel) = fpath
    IN  [i \in 1..Len(files) |->
            IF fileAt(files[i]).readable THEN fileAt(files[i]).text ELSE files[i]]

\* (root / fpath).read_text(...) for the entries of info.files, the files
\* that cannot be read being passed over
ReadableTexts(t, files) ==
    LET fileAt(fpath) == CHOOSE f \in t : PathStr(f.rel) = fpath
        texts == [i \in 1..Len(files) |-> fileAt(files[i])]
        isReadable(f) == f.readable
        got == SelectSeq(texts, isReadable)
    IN  [i \in 1..Len(got) |-> got[i].text]

\* "\n".join(parts) for every crate
JoinedContent(t, cr) ==
    [n \in DOMAIN cr |-> Join("\n", ReadableTexts(t, cr[n].files))]

\* "Build lookup indices" and "Read all file content for deeper matching"
BuildIndices ==
    /\ pc = "index"
    /\ all_functions' = AllOf(crates, "functions")
    /\ all_structs' = AllOf(crates, "structs")
    /\ all_enums' = AllOf(crates, "enums")
    /\ all_content' = JoinedContent(tree, crates)
    /\ pc' = "match"
    /\ UNCHANGED <<inputs, scan1, scan2, match1, match2, report>>

MatchAtCarryingOver(feats, i, structs, content) ==
    [feats EXCEPT ![i] =
        _match_single_feature(
            IF i > 1 THEN [@ EXCEPT !.status = feats[i - 1].status,
                                    !.notes = feats[i - 1].notes]
            ELSE @,
            structs, content)]

MatchAtRenaming(feats, i, structs, content) ==
    [feats EXCEPT ![i] =
        [_match_single_feature(@, structs, content)
            EXCEPT !.name = Replace(@, "/api/v1", "")]]

\* the list after the iteration of "for feat in features" that handles feats[i]
MatchAt(feats, i, structs, content) ==
    [feats EXCEPT ![i] = _match_single_feature(@, structs, content)]

\* one iteration of "for feat in features"
MatchFeature ==
    /\ pc = "match"
    /\ idx <= Len(features)
    /\ features' = MatchAt(features, idx, all_structs, all_content)
    /\ idx' = idx + 1
    /\ UNCHANGED <<inputs, scan1, scan2, indices, match2, pc, report>>

\* match_features returns, main() going on to the reports
MatchReturn ==
    /\ pc = "match"
    /\ idx > Len(features)
    /\ pc' = "report"
    /\ UNCHANGED <<inputs, scan1, scan2, indices, match1, match2, report>>

(***************************************************************************)
(* Reports                                                                 *)
(***************************************************************************)
\* the figures are computed; an exception ends the program before any
\* report is written
GenerateReports ==
    /\ pc = "report"
    /\ LET rep == ReportOf(features)
       IN  IF Raised(rep)
           THEN pc' = "crashed" /\ UNCHANGED report
           ELSE pc' = "done" /\ report' = rep
    /\ UNCHANGED <<inputs, scan1, scan2, indices, match1, match2>>

Next ==
    \/ ScanFile
    \/ ScanReturn
    \/ BuildIndices
    \/ MatchFeature
    \/ MatchReturn
    \/ GenerateReports

Spec == Init /\ [][Next]_vars

(***************************************************************************)
(* Scanning one tree twice: scan_rust_source(root) is called, returns, and *)
(* is called again on the unchanged tree, rglob yielding the files in an   *)
(* order of its own each time.                                             *)
(***************************************************************************)
InitScan ==
    \E sc \in Scenarios, rt \in RootPool :
        \E t \in Trees(sc) : InitWith(rt, t, <<>>, <<>>)

\* the first call returns and the second one starts
ScanAgain ==
    /\ pc = "scan"
    /\ todo = {}
    /\ pc' = "rescan"
    /\ UNCHANGED <<inputs, scan1, scan2, indices, match1, match2, report>>

\* one iteration of the loop of the second call
RescanFile ==
    /\ pc = "rescan"
    /\ \E f \in todo2 :
          /\ crates2' = ScanOne(crates2, root, f)
          /\ todo2' = todo2 \ {f}
    /\ UNCHANGED <<inputs, scan1, indices, match1, match2, pc, report>>

\* the second call returns
RescanReturn ==
    /\ pc = "rescan"
    /\ todo2 = {}
    /\ pc' = "scanned"
    /\ UNCHANGED <<inputs, scan1, scan2, indices, match1, match2, report>>

NextScan ==
    \/ ScanFile
    \/ ScanAgain
    \/ RescanFile
    \/ RescanReturn

SpecScan == InitScan /\ [][NextScan]_vars

(***************************************************************************)
(* Matching two catalogs against one scan: match_features(features, crates)*)
(* is followed by match_features(features2, crates), where features2 holds *)
(* entries of features in another order or in a catalog of their own.      *)
(***************************************************************************)
Reverse(q) == [i \in 1..Len(q) |-> q[Len(q) + 1 - i]]

\* the catalogs an entry of the catalog is matched in a second time
Regroupings(catalog) ==
    {Reverse(catalog)} \cup {<<catalog[i]>> : i \in 1..Len(catalog)}

\* the trees with room for one more file
SmallTrees(sc) == {t \in Trees(sc) : Cardinality(t) < MaxFiles}

InitTwice ==
    \E sc \in Scenarios :
        \E t \in SmallTrees(sc), catalog \in Catalogs(sc) :
            \E catalog2 \in Regroupings(catalog) :
                InitWith(ProjectRoot, t, catalog, catalog2)

\* the first call returns and the second one builds its indices and content
MatchAgain ==
    /\ pc = "match"
    /\ idx > Len(features)
    /\ all_functions' = AllOf(crates, "functions")
    /\ all_structs' = AllOf(crates, "structs")
    /\ all_enums' = AllOf(crates, "enums")
    /\ all_content' = JoinedContent(tree, crates)
    /\ pc' = "rematch"
    /\ UNCHANGED <<inputs, scan1, scan2, match1, match2, report>>

\* one iteration of "for feat in features" of the second call
RematchFeature ==
    /\ pc = "rematch"
    /\ idx2 <= Len(features2)
    /\ features2' = MatchAt(features2, idx2, all_structs, all_content)
    /\ idx2' = idx2 + 1
    /\ UNCHANGED <<inputs, scan1, scan2, indices, match1, pc, report>>

\* the second call returns
RematchReturn ==
    /\ pc = "rematch"
    /\ idx2 > Len(features2)
    /\ pc' = "matched"
    /\ UNCHANGED <<inputs, scan1, scan2, indices, match1, match2, report>>

NextTwice ==
    \/ ScanFile
    \/ ScanReturn
    \/ BuildIndices
    \/ MatchFeature
    \/ MatchAgain
    \/ RematchFeature
    \/ RematchReturn

SpecTwice == InitTwice /\ [][NextTwice]_vars

(***************************************************************************)
(* Running the program twice, one file of the tree having become           *)
(* unreadable in between: scan_rust_source and match_features on the tree, *)
(* then both again on the tree with that file unreadable, the catalog      *)
(* being built anew.                                                       *)
(***************************************************************************)
\* the tree t with the file f unreadable
Unreadable(t, f) == (t \ {f}) \cup {[f EXCEPT !.readable = FALSE]}

\* the catalogs with room for one more entry
SmallCatalogs(sc) == {c \in Catalogs(sc) : Len(c) < MaxEntries}

InitDrop ==
    \E sc \in Scenarios :
        \E t \in Trees(sc), catalog \in SmallCatalogs(sc) :
            \E f \in {g \in Rglob(t) : g.readable} :
                InitAll(ProjectRoot, t, Unreadable(t, f), catalog, catalog)

\* the first run is over and the second one starts its scan
RunAgain ==
    /\ pc = "match"
    /\ idx > Len(features)
    /\ pc' = "rescan"
    /\ UNCHANGED <<inputs, scan1, scan2, indices, match1, match2, report>>

\* the second scan returns and match_features builds its indices and content
\* from it
RescanIndex ==
    /\ pc = "rescan"
    /\ todo2 = {}
    /\ all_functions' = AllOf(crates2, "functions")
    /\ all_structs' = AllOf(crates2, "structs")
    /\ all_enums' = AllOf(crates2, "enums")
    /\ all_content' = JoinedContent(tree2, crates2)
    /\ pc' = "rematch"
    /\ UNCHANGED <<inputs, scan1, scan2, match1, match2, report>>

NextDrop ==
    \/ ScanFile
    \/ ScanReturn
    \/ BuildIndices
    \/ MatchFeature
    \/ RunAgain
    \/ RescanFile
    \/ RescanIndex
    \/ RematchFeature
    \/ RematchReturn

SpecDrop == InitDrop /\ [][NextDrop]_vars

(***************************************************************************)
(* Matching one list twice: scan_rust_source and match_features on the     *)
(* tree, then, one file having become unreadable, scan_rust_source again   *)
(* and match_features on the list the first call has written to.           *)
(***************************************************************************)
InitRerun ==
    \E sc \in Scenarios :
        \E t \in Trees(sc), catalog \in SmallCatalogs(sc) :
            \E f \in {g \in Rglob(t) : g.readable} :
                InitAll(ProjectRoot, t, Unreadable(t, f), catalog, <<>>)

\* the first call has returned; the list it leaves is the one the second
\* call gets, and the second scan starts
ScanForSameList ==
    /\ pc = "match"
    /\ idx > Len(features)
    /\ features2' = features
    /\ pc' = "rescan"
    /\ UNCHANGED <<inputs, scan1, scan2, indices, match1, idx2, report>>

NextRerun ==
    \/ ScanFile
    \/ ScanReturn
    \/ BuildIndices
    \/ MatchFeature
    \/ ScanForSameList
    \/ RescanFile
    \/ RescanIndex
    \/ RematchFeature
    \/ RematchReturn

SpecRerun == InitRerun /\ [][NextRerun]_vars

(***************************************************************************)
(* Properties                                                              *)
(***************************************************************************)
\* the entry at position i has been through the loop of match_features
Matched(i) == i \in 1..Len(features) /\ i < idx

ApiText == ContentOf(all_content, "bb-api")
ModelsText == ContentOf(all_content, "bb-models")
CliText == ContentOf(all_content, "bb-cli")
CoreText == ContentOf(all_content, "bb-core")

\* C1: the status of every catalog entry is one of implemented, stubbed and
\* missing, before, during and after matching, whatever the modules hold.
StatusInRange ==
    \A i \in 1..Len(features) :
        features[i].status \in {"implemented", "stubbed", "missing"}

\* a finished run whose catalog holds an implemented and a stubbed entry
StatusInRangeWitness ==
    /\ pc = "done"
    /\ \E i, j \in 1..Len(features) :
          /\ features[i].status = "implemented"
          /\ features[j].status = "stubbed"

\* C2: only entries of the categories DB Models, Services and CLI Commands
\* ever have the status stubbed.
StubbedOnlyTwoStage ==
    \A i \in 1..Len(features) :
        features[i].status = "stubbed" =>
            features[i].category \in {"DB Models", "Services", "CLI Commands"}

\* a finished run with a stubbed two-stage entry next to a matched entry of
\* another category, the text of that category's module being there
StubbedOnlyTwoStageWitness ==
    /\ pc = "done"
    /\ \E i, j \in 1..Len(features) :
          /\ features[i].status = "stubbed"
          /\ features[j].category \in {"Settings", "Socket Events",
                                       "Core Infrastructure", "DB Infrastructure"}
          /\ features[j].status = "missing"
    /\ \E n \in DOMAIN all_content : all_content[n] # ""

SameEntry(a, b) ==
    /\ a.category = b.category
    /\ a.subcategory = b.subcategory
    /\ a.name = b.name

SameOutcome(a, b) ==
    /\ a.status = b.status
    /\ a.rust_file = b.rust_file
    /\ a.rust_symbol = b.rust_symbol
    /\ a.notes = b.notes

\* C3: once both calls of match_features have returned, an entry of the first
\* catalog and the same entry in the second catalog (another order, or a
\* catalog of its own) hold the same status, evidence file, evidence symbol
\* and note.
MatchingDeterministic ==
    pc = "matched" =>
        \A i \in 1..Len(features), j \in 1..Len(features2) :
            SameEntry(features[i], features2[j]) =>
                SameOutcome(features[i], features2[j])

\* two different entries, the first implemented and the second not, matched
\* again in the reverse order
MatchingDeterministicWitness ==
    /\ pc = "matched"
    /\ Len(features) = 2
    /\ Len(features2) = 2
    /\ ~SameEntry(features[1], features[2])
    /\ features[1].status = "implemented"
    /\ features[2].status # "implemented"
    /\ SameEntry(features[1], features2[2])

\* the entries of one category
InCategory(c) == {i \in 1..Len(features) : features[i].category = c}

ImplementedIn(S) == {i \in S : features[i].status = "implemented"}

\* p is the fraction 100 * k / n when n > 0 and is 0 when n = 0
IsCoverage(p, k, n) ==
    /\ p.den # 0
    /\ n > 0 => p.num * n = 100 * k * p.den
    /\ n = 0 => p.num = 0

\* C4: the figures are computed without a division error, and the overall
\* coverage and the coverage of every category are 100 * implemented / total,
\* or 0 for a total of 0.
CoverageLaw ==
    /\ pc # "crashed"
    /\ pc = "done" =>
          /\ IsCoverage(report.pct,
                        Cardinality(ImplementedIn(1..Len(features))),
                        Len(features))
          /\ \A i \in 1..Len(features) :
                \E r \in 1..Len(report.rows) :
                    report.rows[r].name = features[i].category
          /\ \A r \in 1..Len(report.rows) :
                LET members == InCategory(report.rows[r].name)
                IN  IsCoverage(report.rows[r].pct,
                               Cardinality(ImplementedIn(members)),
                               Cardinality(members))

\* a finished run with half of the catalog implemented, in two categories
CoverageLawWitness ==
    /\ pc = "done"
    /\ report.total = 2
    /\ report.implemented = 1
    /\ Len(report.rows) = 2

SymbolSets(info) ==
    [structs |-> SeqToSet(info.structs), enums |-> SeqToSet(info.enums),
     traits |-> SeqToSet(info.traits), functions |-> SeqToSet(info.functions),
     impls |-> SeqToSet(info.impls)]

\* C5: two scans of the same tree, each visiting the files in an order of
\* its own, give the same crates, and for every crate the same line_count,
\* the same test_count and the same sets of structs, enums, traits, functions
\* and impls.
RescanSame ==
    pc = "scanned" =>
        /\ DOMAIN crates = DOMAIN crates2
        /\ \A n \in DOMAIN crates :
              /\ crates[n].line_count = crates2[n].line_count
              /\ crates[n].test_count = crates2[n].test_count
              /\ SymbolSets(crates[n]) = SymbolSets(crates2[n])

\* both scans are over and visited the two files of a crate, which declare
\* symbols, in opposite orders
RescanSameWitness ==
    /\ pc = "scanned"
    /\ \E n \in DOMAIN crates :
          /\ Len(crates[n].files) = 2
          /\ crates[n].files # crates2[n].files
          /\ crates[n].structs # <<>>
          /\ crates[n].line_count > 2

\* C6: a matched entry of the category UI Screens has the status missing and
\* the note "Tauri UI not yet started".
UiAlwaysMissing ==
    \A i \in 1..Len(features) :
        Matched(i) /\ features[i].category = "UI Screens" =>
            /\ features[i].status = "missing"
            /\ features[i].notes = "Tauri UI not yet started"

\* a finished run over a scanned crate with text, the catalog holding a UI
\* entry
UiAlwaysMissingWitness ==
    /\ pc = "done"
    /\ \E i \in 1..Len(features) : features[i].category = "UI Screens"
    /\ \E n \in DOMAIN all_content : all_content[n] # ""

\* the path with the API version prefix stripped
StripApiPrefix(path) == IF StartsAt(path, 1, "/api/v1") THEN From(path, 8) ELSE path

\* C7: a matched API entry named "METHOD path" is implemented when the text
\* of bb-api contains the route with each :param written {param}, or the
\* route in double quotes; so "GET /api/v1/ping" with "/ping" in the text,
\* and "GET /api/v1/chat/:guid" with "/chat/{guid}" in the text.
RouteFoundImplemented ==
    \A i \in 1..Len(features) :
        LET parts == Split1(features[i].name, " ")
            route == StripApiPrefix(parts[2])
        IN  Matched(i) /\ features[i].category = "API Endpoints" /\ Len(parts) = 2 =>
              /\ \/ Contains(ApiText, ParamsToBraces(route))
                 \/ Contains(ApiText, "\"" \o route \o "\"")
                 => features[i].status = "implemented"
              /\ features[i].name = "GET /api/v1/ping" /\ Contains(ApiText, "/ping")
                 => features[i].status = "implemented"
              /\ features[i].name = "GET /api/v1/chat/:guid"
                     /\ Contains(ApiText, "/chat/{guid}")
                 => features[i].status = "implemented"

\* a finished run where nothing but the translated route makes the entry
\* "GET /api/v1/chat/:guid" implemented, next to the entry of Scenario A
RouteFoundImplementedWitness ==
    /\ pc = "done"
    /\ Contains(ApiText, "/chat/{guid}")
    /\ ~Contains(ApiText, "get_")
    /\ \E i, j \in 1..Len(features) :
          /\ features[i].name = "GET /api/v1/chat/:guid"
          /\ features[i].category = "API Endpoints"
          /\ features[i].status = "implemented"
          /\ features[j].name = "GET /api/v1/ping"
          /\ features[j].status = "implemented"

\* the three-way rule of the data-model matcher for the type name ty
ModelRule(f, ty) ==
    LET member == Split1(f.name, ".")[2]
        known == ty \in all_structs \/ Contains(ModelsText, ty)
    IN  /\ ~known => f.status = "missing"
        /\ known /\ ~Contains(ModelsText, member) =>
              f.status = "stubbed" /\ Contains(f.notes, member)
        /\ known /\ Contains(ModelsText, member) => f.status = "implemented"

\* C8 as stated: for a matched DB Models entry named "Type.member", with
\* Type the text before the first ".", the status is missing when Type is
\* neither a declared struct nor in the text of bb-models, else stubbed with
\* a note containing member when member is not in that text, else
\* implemented.
ModelRuleByNamePrefix ==
    \A i \in 1..Len(features) :
        /\ Matched(i)
        /\ features[i].category = "DB Models"
        /\ Contains(features[i].name, ".")
        => ModelRule(features[i], Split1(features[i].name, ".")[1])

\* C8 amended: the same rule with Type the subcategory of the entry.
ModelRuleBySubcategory ==
    \A i \in 1..Len(features) :
        /\ Matched(i)
        /\ features[i].category = "DB Models"
        /\ Contains(features[i].name, ".")
        => ModelRule(features[i], features[i].subcategory)

\* a finished run with an entry stubbed because its type is a declared
\* struct while its member is nowhere in the models text, the note naming
\* the member, next to an implemented entry
ModelRuleBySubcategoryWitness ==
    /\ pc = "done"
    /\ \E i, j \in 1..Len(features) :
          /\ features[i].category = "DB Models"
          /\ features[i].status = "stubbed"
          /\ features[i].subcategory \in all_structs
          /\ Contains(features[i].notes, "address")
          /\ features[j].category = "DB Models"
          /\ features[j].status = "implemented"

\* C9: a matched CLI entry "prefix group cmd ..." is implemented iff the
\* text of bb-cli contains group and one of cmd with "-" turned into "_",
\* cmd without "-" capitalized, cmd title-cased; stubbed iff it contains
\* group and none of the three; missing iff it does not contain group.  For
\* "bb server check-update" the three are check_update, Checkupdate and
\* Check-Update.
CliThreeWay ==
    \A i \in 1..Len(features) :
        LET parts == Split(features[i].name, " ")
            cmd == parts[3]
            hasGroup == Contains(CliText, parts[2])
            hasCmd == \/ Contains(CliText, Replace(cmd, "-", "_"))
                      \/ Contains(CliText, Capitalize(Replace(cmd, "-", "")))
                      \/ Contains(CliText, Title(cmd))
        IN  Matched(i) /\ features[i].category = "CLI Commands" /\ Len(parts) >= 3 =>
              /\ features[i].status = "implemented" <=> hasGroup /\ hasCmd
              /\ features[i].status = "stubbed" <=> hasGroup /\ ~hasCmd
              /\ features[i].status = "missing" <=> ~hasGroup
              /\ features[i].name = "bb server check-update" =>
                    (hasCmd <=> \/ Contains(CliText, "check_update")
                                \/ Contains(CliText, "Checkupdate")
                                \/ Contains(CliText, "Check-Update"))

\* a finished run where "bb server check-update" is implemented through its
\* title-cased spelling alone, next to a stubbed entry
CliThreeWayWitness ==
    /\ pc = "done"
    /\ ~Contains(CliText, "check_update")
    /\ \E i, j \in 1..Len(features) :
          /\ features[i].category = "CLI Commands"
          /\ features[i].name = "bb server check-update"
          /\ features[i].status = "implemented"
          /\ features[j].category = "CLI Commands"
          /\ features[j].status = "stubbed"

\* C10: a matched Settings entry named n is implemented iff the text of
\* bb-core contains n or its snake_case form d, and is otherwise missing
\* with the note "Not in TOML config yet"; for "userName" d is "user_name".
SettingBySnakeOrName ==
    \A i \in 1..Len(features) :
        LET n == features[i].name
            found == Contains(CoreText, Snake(n)) \/ Contains(CoreText, n)
        IN  Matched(i) /\ features[i].category = "Settings" =>
              /\ features[i].status = "implemented" <=> found
              /\ ~found => /\ features[i].status = "missing"
                           /\ features[i].notes = "Not in TOML config yet"
              /\ n = "userName" =>
                    (features[i].status = "implemented"
                        <=> \/ Contains(CoreText, "user_name")
                            \/ Contains(CoreText, "userName"))

\* a finished run where "userName" is implemented through "user_name" alone
\* and another setting, found in neither form, is missing with the note
SettingBySnakeOrNameWitness ==
    /\ pc = "done"
    /\ ~Contains(CoreText, "userName")
    /\ \E i, j \in 1..Len(features) :
          /\ features[i].category = "Settings"
          /\ features[i].name = "userName"
          /\ features[i].status = "implemented"
          /\ features[j].category = "Settings"
          /\ features[j].status = "missing"
          /\ features[j].notes = "Not in TOML config yet"

\* an API entry whose name has no space between a method and a path
MalformedApi(f) == f.category = "API Endpoints" /\ ~Contains(f.name, " ")

Untouched(f) ==
    f.status = "missing" /\ f.rust_file = "" /\ f.rust_symbol = "" /\ f.notes = ""

\* C11: an API entry whose name has no space keeps the status missing and its
\* empty evidence file, evidence symbol and note through matching, and the
\* other entries of its catalog end with the status, evidence and note they
\* get in a catalog that does not hold the malformed entry.
MalformedSkipped ==
    /\ \A i \in 1..Len(features) :
          MalformedApi(features[i]) => Untouched(features[i])
    /\ \A k \in 1..Len(features2) :
          MalformedApi(features2[k]) => Untouched(features2[k])
    /\ /\ pc = "matched"
       /\ \E i \in 1..Len(features) : MalformedApi(features[i])
       /\ \A k \in 1..Len(features2) : ~MalformedApi(features2[k])
       => \A j \in 1..Len(features), k \in 1..Len(features2) :
              SameEntry(features[j], features2[k]) =>
                  SameOutcome(features[j], features2[k])

\* both calls have returned: the path "/api/v1/ping" without a method was
\* passed over although the text holds its route, and the entry after it is
\* implemented as it is in a catalog of its own
MalformedSkippedWitness ==
    /\ pc = "matched"
    /\ Contains(ApiText, "/ping")
    /\ Len(features) = 2
    /\ features[1].name = "/api/v1/ping"
    /\ MalformedApi(features[1])
    /\ Untouched(features[1])
    /\ features[2].status = "implemented"
    /\ Len(features2) = 1
    /\ SameEntry(features[2], features2[1])
    /\ features2[1].status = "implemented"

RECURSIVE SumOf(_, _)
\* the sum of val[x] over the elements x of S
SumOf(S, val) ==
    IF S = {} THEN 0
    ELSE LET x == CHOOSE y \in S : TRUE
         IN  val[x] + SumOf(S \ {x}, val)

\* the files of crate n the scan has been through and could read
ReadOf(n) ==
    {f \in Rglob(tree) \ todo :
        /\ "target" \notin SeqToSet(root \o f.rel)
        /\ f.rel[1] = n
        /\ f.readable}

\* the symbol lists of a module record and the pattern that fills each
SymbolFields ==
    {<<"structs", "struct">>, <<"enums", "enum">>, <<"traits", "trait">>,
     <<"functions", "fn">>, <<"impls", "impl">>}

\* C12: at every point of the scan each module record holds what the files
\* read so far contribute and nothing else: line_count and test_count are
\* the sums over the readable files of the module, each symbol list holds the
\* symbols of those files, and a file whose read failed adds nothing; once
\* the scan has returned every readable file has contributed.
UnreadableSkipped ==
    /\ \A n \in DOMAIN crates :
          LET S == ReadOf(n)
          IN  /\ crates[n].line_count =
                    SumOf(S, [f \in S |-> CountOf(f.text, "\n") + 1])
              /\ crates[n].test_count =
                    SumOf(S, [f \in S |-> Len(FindAll("test", f.text))])
              /\ \A p \in SymbolFields :
                    /\ SeqToSet(crates[n][p[1]]) =
                          UNION {SeqToSet(FindAll(p[2], f.text)) : f \in S}
                    /\ Len(crates[n][p[1]]) =
                          SumOf(S, [f \in S |-> Len(FindAll(p[2], f.text))])
    /\ \A f \in Rglob(tree) \ todo :
          "target" \notin SeqToSet(root \o f.rel) => f.rel[1] \in DOMAIN crates

\* the scan has returned; a file that declares a function and a test could
\* not be read, and its module record counts the one line of the file next
\* to it, no test and no function
UnreadableSkippedWitness ==
    /\ pc # "scan"
    /\ \E f \in Rglob(tree) :
          /\ ~f.readable
          /\ f.rel[1] = "bb-api"
          /\ FindAll("fn", f.text) # <<>>
          /\ FindAll("test", f.text) # <<>>
    /\ "bb-api" \in DOMAIN crates
    /\ Len(crates["bb-api"].files) = 2
    /\ crates["bb-api"].line_count = 1
    /\ crates["bb-api"].test_count = 0
    /\ crates["bb-api"].functions = <<>>

\* the order missing < stubbed < implemented
Rank(status) ==
    CASE status = "missing" -> 0
      [] status = "stubbed" -> 1
      [] status = "implemented" -> 2

RecordedFiles == UNION {SeqToSet(crates[n].files) : n \in DOMAIN crates}

\* the file lies in a directory named target below the root
InBuildOutput(f) == \E k \in 1..(Len(f.rel) - 1) : f.rel[k] = "target"

\* C14: once the scan has returned, a file of the tree is listed in some
\* module record iff its name ends in .rs and no directory between the root
\* and the file is named target, whatever the path of the root is.
ScanRecordsAllButTarget ==
    pc # "scan" =>
        \A f \in tree :
            PathStr(f.rel) \in RecordedFiles
                <=> IsRsName(f.rel[Len(f.rel)]) /\ ~InBuildOutput(f)

\* what a step does to the catalog: the list keeps its length and every
\* entry its category, subcategory and name; the loop position stays or moves
\* on by one; a step that leaves the position leaves the list, and a step
\* that moves it on changes nothing but the entry at the old position
CatalogFrame ==
    /\ Len(features') = Len(features)
    /\ \A i \in 1..Len(features) : SameEntry(features'[i], features[i])
    /\ idx' \in {idx, idx + 1}
    /\ idx' = idx => features' = features
    /\ idx' = idx + 1 =>
          /\ idx \in 1..Len(features)
          /\ \A i \in 1..Len(features) : i # idx => features'[i] = features[i]

\* C15: every step of a run keeps the number and order of the entries and
\* each entry's category, subcategory and name; only a step of the matching
\* loop changes an entry, and only the entry at the loop position, which then
\* moves on by one; the scan and the reports change none; and when matching
\* is over the loop has been through every entry once.
OnlyMatcherWrites ==
    /\ [][CatalogFrame]_vars
    /\ [](pc \in {"scan", "index"} => idx = 1 /\ \A i \in 1..Len(features) :
                                                    Untouched(features[i]))
    /\ [](pc \in {"report", "done", "crashed"} => idx = Len(features) + 1)

\* the reports of a run are out: both entries of the catalog went through
\* the loop, one of them ending implemented with its evidence file set
OnlyMatcherWritesWitness ==
    /\ pc = "done"
    /\ Len(features) = 2
    /\ idx = 3
    /\ ~SameEntry(features[1], features[2])
    /\ \E i \in 1..2 : features[i].status = "implemented" /\ features[i].rust_file # ""
    /\ report.total = 2

\* the position of the first entry of the catalog with category c, and with
\* category c and subcategory sc
FirstOfCategory(c) ==
    CHOOSE i \in 1..Len(features) :
        /\ features[i].category = c
        /\ \A j \in 1..(i - 1) : features[j].category # c

FirstOfGroup(c, sc) ==
    CHOOSE i \in 1..Len(features) :
        /\ features[i].category = c /\ features[i].subcategory = sc
        /\ \A j \in 1..(i - 1) :
              ~(features[j].category = c /\ features[j].subcategory = sc)

\* the entries of the catalog with category c and subcategory sc, in the
\* order of the catalog
EntriesOf(c, sc) ==
    LET inGroup(f) == f.category = c /\ f.subcategory = sc
    IN  SelectSeq(features, inGroup)

ServicesText == ContentOf(all_content, "bb-services")

\* the rule of the service matcher for the service name svc
ServiceRule(f, svc) ==
    IF f.subcategory = "Flutter-only"
    THEN f.status = "missing" /\ f.notes = "Flutter-specific service, not ported"
    ELSE Contains(f.name, ".") =>
           LET method == Split1(f.name, ".")[2]
               hasSvc == Contains(ServicesText, svc)
               hasMethod == Contains(ServicesText, method)
           IN  /\ f.status = "implemented" <=> hasSvc /\ hasMethod
               /\ f.status = "stubbed" <=> hasSvc /\ ~hasMethod
               /\ f.status = "missing" <=> ~hasSvc

\* C17 as stated: a matched Services entry of subcategory "Flutter-only" is
\* missing with the fixed note; any other, named "Service.method", is
\* implemented iff the services text contains both the text before the first
\* "." and the text after it, stubbed iff it contains the first and not the
\* second, missing iff it does not contain the first.
ServiceRuleByNamePrefix ==
    \A i \in 1..Len(features) :
        Matched(i) /\ features[i].category = "Services" =>
            ServiceRule(features[i], Split1(features[i].name, ".")[1])

\* C17 amended: the same rule with the service name the subcategory of the
\* entry.
ServiceRuleBySubcategory ==
    \A i \in 1..Len(features) :
        Matched(i) /\ features[i].category = "Services" =>
            ServiceRule(features[i], features[i].subcategory)

\* a finished run with an unported service missing under the fixed note
\* although the services text holds its name, next to an entry stubbed for
\* its method
ServiceRuleBySubcategoryWitness ==
    /\ pc = "done"
    /\ \E i, j \in 1..Len(features) :
          /\ features[i].category = "Services"
          /\ features[i].subcategory = "Flutter-only"
          /\ Contains(ServicesText, features[i].name)
          /\ features[i].status = "missing"
          /\ features[i].notes = "Flutter-specific service, not ported"
          /\ features[j].category = "Services"
          /\ features[j].status = "stubbed"
          /\ Contains(ServicesText, features[j].subcategory)

SocketText == ContentOf(all_content, "bb-socket")

\* C18: a matched Socket Events entry is implemented iff the text of
\* bb-socket contains its name in double quotes; otherwise it is missing, and
\* it has a note iff its name is chat-read-status-changed or
\* ft-call-status-changed.
EventQuotedOrMissing ==
    \A i \in 1..Len(features) :
        Matched(i) /\ features[i].category = "Socket Events" =>
            LET quoted == Contains(SocketText, "\"" \o features[i].name \o "\"")
            IN  /\ features[i].status = "implemented" <=> quoted
                /\ ~quoted =>
                      /\ features[i].status = "missing"
                      /\ features[i].notes # "" <=>
                            features[i].name \in {"chat-read-status-changed",
                                                  "ft-call-status-changed"}

\* a finished run where ft-call-status-changed, in the text without quotes,
\* is missing with a note, and another event is missing without one
EventQuotedOrMissingWitness ==
    /\ pc = "done"
    /\ Contains(SocketText, "ft-call-status-changed")
    /\ \E i, j \in 1..Len(features) :
          /\ features[i].category = "Socket Events"
          /\ features[i].name = "ft-call-status-changed"
          /\ features[i].status = "missing"
          /\ features[i].notes # ""
          /\ features[j].category = "Socket Events"
          /\ features[j].name = "new-message"
          /\ features[j].status = "missing"
          /\ features[j].notes = ""

\* C19: every matched entry whose status is missing has an empty evidence
\* file and an empty evidence symbol, in every category.
EvidenceOnlyWhenFound ==
    \A i \in 1..Len(features) :
        Matched(i) /\ features[i].status = "missing" =>
            features[i].rust_file = "" /\ features[i].rust_symbol = ""

\* the segments of a route that are neither empty nor a :param
NonParamSegments(route) ==
    LET plain(seg) == seg # "" /\ SubSeq(seg, 1, 1) # ":"
    IN  SelectSeq(Split(route, "/"), plain)

\* the special-case pairs in their listed order: for each, whether the
\* condition it puts on the entry (its route fragments and, for the :guid
\* pairs, the method and the subcategory) and its function-name fragment in
\* the text both hold, and the evidence file it names
SpecialPairList(route, method, subcategory, text) ==
    LET chats == "bb-api/src/endpoints/chats.rs"
        messages == "bb-api/src/endpoints/messages.rs"
        attachments == "bb-api/src/endpoints/attachments.rs"
        handles == "bb-api/src/endpoints/handles.rs"
        icloud == "bb-api/src/endpoints/icloud.rs"
        pair(frag, fn, file) ==
            [holds |-> Contains(route, frag) /\ Contains(text, fn), file |-> file]
        guidPair(m, sub, fn, file) ==
            [holds |-> /\ Contains(route, ":guid")
                       /\ method = m
                       /\ subcategory = sub
                       /\ Contains(text, fn),
             file |-> file]
    IN  << pair("/read", "mark_chat_read", chats),
           pair("/unread", "mark_chat_unread", chats),
           pair("/leave", "leave_chat", chats),
           pair("/participant/add", "add_participant", chats),
           pair("/participant/remove", "remove_participant", chats),
           pair("/icon", "chat_icon", chats),
           pair("embedded-media", "embedded_media", messages),
           pair("/unsend", "unsend_message", messages),
           pair("/edit", "edit_message", messages),
           pair("/notify", "notify_message", messages),
           pair("/live", "live_photo", attachments),
           pair("/blurhash", "blurhash", attachments),
           pair("/download", "download_attachment", attachments),
           pair("/focus", "handle_focus", handles),
           pair("findmy/devices/refresh", "refresh_findmy_devices", icloud),
           pair("findmy/friends/refresh", "refresh_findmy_friends", icloud),
           guidPair("GET", "Chat", "get_chat", chats),
           guidPair("PUT", "Chat", "update_chat", chats),
           guidPair("DELETE", "Chat", "delete_chat", chats),
           [holds |-> /\ Contains(route, "/message")
                      /\ guidPair("GET", "Chat", "get_chat_messages", chats).holds,
            file |-> chats],
           [holds |-> /\ Contains(route, ":messageGuid")
                      /\ method = "DELETE"
                      /\ subcategory = "Chat"
                      /\ Contains(text, "delete_chat_message"),
            file |-> chats],
           guidPair("GET", "Message", "get_message", messages),
           guidPair("GET", "Attachment", "get_attachment", attachments),
           guidPair("GET", "Handle", "get_handle", handles) >>

\* for each special-case pair, whether it holds
SpecialPairs(route, method, subcategory, text) ==
    LET pairs == SpecialPairList(route, method, subcategory, text)
    IN  {pairs[k].holds : k \in 1..Len(pairs)}

\* whether one of the four rules holds for the entry f on the API text
SomeRuleHolds(f) ==
    LET parts == Split1(f.name, " ")
        method == parts[1]
        route == StripApiPrefix(parts[2])
        segs == NonParamSegments(route)
        n == Len(segs)
    IN  \/ Contains(ApiText, ParamsToBraces(route))
        \/ Contains(ApiText, "\"" \o route \o "\"")
        \/ n >= 2 /\ Contains(ApiText, segs[n - 1]) /\ Contains(ApiText, segs[n])
        \/ \E k \in 1..Len(RouteKeywords) :
              /\ Contains(route, RouteKeywords[k][1])
              /\ Contains(ApiText, RouteKeywords[k][2])
        \/ TRUE \in SpecialPairs(route, method, f.subcategory, ApiText)

\* C20: a matched API entry named "METHOD path" is implemented iff one of
\* the four rules holds on the text of bb-api: the translated or the quoted
\* route is found; the route has two or more non-parameter segments and the
\* last two are found; a key of the lookup table is in the route and its
\* function token is found; a special-case pair has its condition on the
\* entry met and its function-name fragment found.  Else it is missing.
ApiFourRules ==
    \A i \in 1..Len(features) :
        /\ Matched(i)
        /\ features[i].category = "API Endpoints"
        /\ Len(Split1(features[i].name, " ")) = 2
        => /\ features[i].status = "implemented" <=> SomeRuleHolds(features[i])
           /\ ~SomeRuleHolds(features[i]) => features[i].status = "missing"

\* a finished run where "GET /api/v1/handle/:guid" is implemented through
\* its special-case pair alone and another entry, no rule holding for it on
\* the same text, is missing
ApiFourRulesWitness ==
    /\ pc = "done"
    /\ Contains(ApiText, "get_handle")
    /\ ~Contains(ApiText, "/handle")
    /\ \E i, j \in 1..Len(features) :
          /\ features[i].category = "API Endpoints"
          /\ features[i].name = "GET /api/v1/handle/:guid"
          /\ features[i].status = "implemented"
          /\ features[j].category = "API Endpoints"
          /\ Len(Split1(features[j].name, " ")) = 2
          /\ ~SomeRuleHolds(features[j])
          /\ features[j].status = "missing"

\* the evidence file the earliest rule that holds assigns to the API entry f:
\* the file named after the subcategory for the rules 1, 2 and 3, else the
\* file of the earliest special-case pair that holds
EarliestRuleFile(f) ==
    LET parts == Split1(f.name, " ")
        method == parts[1]
        route == StripApiPrefix(parts[2])
        segs == NonParamSegments(route)
        n == Len(segs)
        pairs == SpecialPairList(route, method, f.subcategory, ApiText)
        rule1 == \/ Contains(ApiText, ParamsToBraces(route))
                 \/ Contains(ApiText, "\"" \o route \o "\"")
        rule2 == n >= 2 /\ Contains(ApiText, segs[n - 1]) /\ Contains(ApiText, segs[n])
        rule3 == \E k \in 1..Len(RouteKeywords) :
                     /\ Contains(route, RouteKeywords[k][1])
                     /\ Contains(ApiText, RouteKeywords[k][2])
    IN  IF rule1 \/ rule2 \/ rule3
        THEN "bb-api/src/endpoints/" \o StrLower(f.subcategory) \o ".rs"
        ELSE pairs[CHOOSE k \in 1..Len(pairs) :
                       pairs[k].holds /\ \A j \in 1..(k - 1) : ~pairs[j].holds].file

\* C21: the evidence file of an implemented API entry is the one of the
\* earliest rule that holds, in the order 1, 2, 3, then the special-case
\* pairs as listed; a pair whose route fragment is in the route while its
\* function name is not in the text leaves the entry to the later pairs.
\* So "POST /api/v1/chat/:guid/read" of subcategory Chat, found by rule 2,
\* has the file chat.rs although the pair for /read names chats.rs.
FirstRuleWins ==
    \A i \in 1..Len(features) :
        /\ Matched(i)
        /\ features[i].category = "API Endpoints"
        /\ Len(Split1(features[i].name, " ")) = 2
        /\ features[i].status = "implemented"
        => /\ features[i].rust_file = EarliestRuleFile(features[i])
           /\ /\ features[i].name = "POST /api/v1/chat/:guid/read"
              /\ features[i].subcategory = "Chat"
              /\ Contains(ApiText, "chat") /\ Contains(ApiText, "read")
              => features[i].rust_file = "bb-api/src/endpoints/chat.rs"

\* a finished run where the route of the entry holds "/download" while the
\* text has no download_attachment, and the later pair for GET entries of
\* Chat gave the file; next to it an entry of Message, whose own pair lacks
\* its function name, is missing although the text holds get_attachment
FirstRuleWinsWitness ==
    /\ pc = "done"
    /\ Contains(ApiText, "get_chat")
    /\ Contains(ApiText, "get_attachment")
    /\ ~Contains(ApiText, "download_attachment")
    /\ \E i, j \in 1..Len(features) :
          /\ features[i].name = "GET /api/v1/:guid/download"
          /\ features[i].status = "implemented"
          /\ features[i].rust_file = "bb-api/src/endpoints/chats.rs"
          /\ features[j].name = "GET /api/v1/message/:guid"
          /\ features[j].status = "missing"

\* the positions of the checks table whose fragment is contained in the
\* lowercased name of the entry f
FragmentsIn(f) ==
    LET checks == InfraChecks(ModelsText)
    IN  {k \in 1..Len(checks) : Contains(StrLower(f.name), checks[k][1])}

\* C22: for an infrastructure entry the first fragment of the table, in
\* table order, contained in the lowercased name decides alone: implemented
\* if its predicate holds on the models text, missing otherwise, whatever
\* the later fragments and the fallback would say; with no fragment in the
\* name the entry is implemented iff its lowercased name occurs in the
\* lower-cased models text, else missing.
InfraFirstFragmentDecides ==
    \A i \in 1..Len(features) :
        Matched(i) /\ features[i].category = "DB Infrastructure"
        => LET f == features[i]
               checks == InfraChecks(ModelsText)
               hits == FragmentsIn(f)
               first == CHOOSE k \in hits : \A j \in hits : k <= j
           IN  /\ f.status \in {"implemented", "missing"}
               /\ f.status = "implemented"
                  <=> IF hits # {} THEN checks[first][2]
                      ELSE Contains(StrLower(ModelsText), StrLower(f.name))

\* a finished run where an entry naming two fragments is missing because the
\* one first in the table fails, although the later one holds and the whole
\* name occurs in the text, next to an entry found by the fallback
InfraFirstFragmentDecidesWitness ==
    /\ pc = "done"
    /\ Contains(ModelsText, "create_tables")
    /\ \E i, j \in 1..Len(features) :
          /\ features[i].category = "DB Infrastructure"
          /\ FragmentsIn(features[i]) = {1, 4}
          /\ Contains(StrLower(ModelsText), StrLower(features[i].name))
          /\ features[i].status = "missing"
          /\ features[j].category = "DB Infrastructure"
          /\ FragmentsIn(features[j]) = {}
          /\ features[j].status = "implemented"

\* the matched infrastructure entries whose lowercased name contains
\* "connection pooling"
PoolingEntries ==
    {i \in 1..Len(features) :
        /\ Matched(i)
        /\ features[i].category = "DB Infrastructure"
        /\ Contains(StrLower(features[i].name), "connection pooling")}

\* C23 as stated: a connection-pooling entry is implemented only when both
\* "r2d2" and "Pool" occur in the models text, and missing when either one
\* is absent.
PoolingNeedsBoth ==
    \A i \in PoolingEntries :
        /\ features[i].status = "implemented"
           => Contains(ModelsText, "r2d2") /\ Contains(ModelsText, "Pool")
        /\ ~Contains(ModelsText, "r2d2") \/ ~Contains(ModelsText, "Pool")
           => features[i].status = "missing"

\* C23: a connection-pooling entry is implemented iff at least one of "r2d2"
\* and "Pool" occurs in the models text, and missing iff both are absent.
PoolingNeedsEither ==
    \A i \in PoolingEntries :
        /\ features[i].status = "implemented"
           <=> Contains(ModelsText, "r2d2") \/ Contains(ModelsText, "Pool")
        /\ features[i].status = "missing"
           <=> ~Contains(ModelsText, "r2d2") /\ ~Contains(ModelsText, "Pool")

\* a finished run where the models text holds "r2d2" and no "Pool" and the
\* connection-pooling entry is implemented
PoolingNeedsEitherWitness ==
    /\ pc = "done"
    /\ Contains(ModelsText, "r2d2")
    /\ ~Contains(ModelsText, "Pool")
    /\ PoolingEntries # {}
    /\ \A i \in PoolingEntries : features[i].status = "implemented"

\* the positions of the keyword table whose keyword is contained in the name
\* of the entry f
KeywordsIn(f) == {k \in 1..Len(KeywordMap) : Contains(f.name, KeywordMap[k][1])}

\* whether the search term of the table row k occurs in the text of the
\* module the row names
TermFound(k) == Contains(ContentOf(all_content, KeywordMap[k][3]), KeywordMap[k][2])

\* C24: for a Core Infrastructure entry the first keyword of the table, in
\* table order, contained in the entry name decides: the entry is implemented,
\* with that row's evidence file and search term recorded, iff the row's search
\* term occurs in the text of the module the row names, and missing otherwise;
\* an entry whose name contains no keyword is missing.
CoreFirstKeywordDecides ==
    \A i \in 1..Len(features) :
        Matched(i) /\ features[i].category = "Core Infrastructure"
        => LET f == features[i]
               hits == KeywordsIn(f)
               first == CHOOSE k \in hits : \A j \in hits : k <= j
           IN  IF hits = {} THEN f.status = "missing"
               ELSE IF TermFound(first)
               THEN /\ f.status = "implemented"
                    /\ f.rust_file = KeywordMap[first][4]
                    /\ f.rust_symbol = KeywordMap[first][2]
               ELSE f.status = "missing"

\* a finished run where an entry naming two keywords is missing because the
\* search term of the first is not in its module, although the second one's
\* is, and an entry whose search term occurs only in another module's text is
\* missing too
CoreFirstKeywordDecidesWitness ==
    /\ pc = "done"
    /\ \E i, j \in 1..Len(features) :
          /\ features[i].category = "Core Infrastructure"
          /\ KeywordsIn(features[i]) = {1, 20}
          /\ ~TermFound(1) /\ TermFound(20)
          /\ features[i].status = "missing"
          /\ features[j].category = "Core Infrastructure"
          /\ features[j].name = "Constants"
          /\ Contains(ContentOf(all_content, "bb-socket"), "reactions")
          /\ features[j].status = "missing"

\* the files of the tree the scan loop has been through and not skipped,
\* td being the files it has yet to visit
ScannedFiles(td) ==
    {f \in Rglob(tree) \ td : "target" \notin SeqToSet(root \o f.rel)}

\* the places <<k, i>> of the module mapping cr where the path p is listed
ListedAt(cr, p) ==
    {ki \in UNION {{<<k, i>> : i \in 1..Len(cr[k].files)} : k \in DOMAIN cr} :
        cr[ki[1]].files[ki[2]] = p}

\* the module mapping cr is keyed by module name, td being the files the
\* scan has yet to visit
KeyedByName(cr, td) ==
    /\ \A k \in DOMAIN cr :
          /\ cr[k].name = k
          /\ \A i \in 1..Len(cr[k].files) : Split1(cr[k].files[i], "/")[1] = k
    /\ \A f \in ScannedFiles(td) : Cardinality(ListedAt(cr, PathStr(f.rel))) = 1

\* C25: at every point of the scan, of the first call and of the second, the
\* record stored under a key k has the name k, every path in its files list
\* has k as its first segment relative to the root, and each scanned file is
\* listed in exactly one record, exactly once.
ModuleKeyedByName == KeyedByName(crates, todo) /\ KeyedByName(crates2, todo2)

\* both scans are over and a record lists two files of its module
ModuleKeyedByNameWitness ==
    /\ pc = "scanned"
    /\ \E k \in DOMAIN crates :
          /\ Len(crates[k].files) = 2
          /\ crates[k].files[1] # crates[k].files[2]
          /\ Len(crates2[k].files) = 2

\* C26: after matching, every entry whose status is implemented, of whatever
\* category and name, has a non-empty evidence location.
ImplementedHasEvidence ==
    \A i \in 1..Len(features) :
        Matched(i) /\ features[i].status = "implemented"
        => features[i].rust_file # ""

\* C27: when nothing was scanned, the module mapping being empty, matching
\* leaves every entry of the catalog, of whatever category, subcategory and
\* name, at status missing.
NothingScannedAllMissing ==
    pc # "scan" /\ DOMAIN crates = {}
    => \A i \in 1..Len(features) : Matched(i) => features[i].status = "missing"

\* the entry f as build_feature_matrix makes it, matched against the scanned
\* data at hand
MatchedAfresh(f) ==
    _match_single_feature(Feature(f.category, f.subcategory, f.name),
                          all_structs, all_content)

\* C28: the status, evidence location, evidence symbol and note an entry
\* holds after matching are those it gets from its category, subcategory and
\* name and the scanned data alone, whatever the four fields held before:
\* an entry matched a second time, holding the results of the first, ends
\* as the same entry matched afresh against the same scanned data.
OutcomeIgnoresPriorFields ==
    pc = "matched" =>
        \A i \in 1..Len(features2) :
            SameOutcome(features2[i], MatchedAfresh(features2[i]))

====
